---- MODULE Spec2Model ----
(***************************************************************************)
(* Verification model of multi_agent_csm: the API key rotation manager,    *)
(* the selective sub-agent orchestrator with its first-completion merge,   *)
(* the standalone VLM batch runner and the CosmoFlowAgent workflow         *)
(* variants.  Each component has its own specification over the shared     *)
(* variable tuple; a component that a specification does not run stays in  *)
(* its idle state.                                                         *)
(***************************************************************************)
EXTENDS Integers, Sequences, FiniteSets, TLC

VARIABLES
    \* ---- ApiKeyManager (src/agent/load_agent.py) ----
    api_keys,           \* self.api_keys: the ordered pool
    current_index,      \* self.current_index: the round-robin cursor (0-based)
    usage_count,        \* self.usage_count: key -> number of draws
    kmLast,             \* the last operation, its result and the state it started from
    kmAssigned,         \* agent identity -> the key its first draw returned
    kmCalls,            \* number of operations performed so far
    manager_class,      \* which of the repository's key manager classes this one is
    next_keys           \* the keys get_next_key has returned, in order

kmVars == <<api_keys, current_index, usage_count, kmLast, kmAssigned, kmCalls,
            manager_class, next_keys>>

VARIABLES
    \* ---- CustomSelectiveAgent10 and _merge_agent_run (src/custom_workflow.py) ----
    session_state,      \* ctx.session.state: "sub_agent_plan" and the output key
    selPc,              \* position of _run_async_impl
    selError,           \* the exception _run_async_impl raised, if any
    agent_runs,         \* agent_runs: one record per started sub-agent run
    tasks,              \* tasks[i]: the outstanding __anext__ of run i
    pending_tasks,      \* pending_tasks: runs whose task asyncio.wait still holds
    done,               \* done: runs whose finished task the for loop has yet to handle
    collected_outputs,  \* collected_outputs: agent name -> contents
    produced,           \* produced[i]: the events run i's sub-agent produced, in order
    yielded,            \* every event the orchestrator yielded, in order
    outWrites,          \* number of writes to the output key
    eventLimit          \* most events one sub-agent run produces before it is exhausted

selVars == <<session_state, selPc, selError, agent_runs, tasks, pending_tasks, done,
             collected_outputs, produced, yielded, outWrites, eventLimit>>

VARIABLES
    \* ---- the VLM fan-out (src/workflow/vlm_runner.py and step 3 of the workflows) ----
    vlmCaller,          \* whose fan-out runs: "vlm_runner" or a workflow variant
    vlmPc,              \* position of the fan-out
    vlm_agents,         \* vlm_agents: the pool, agent names in order
    vlm_images,         \* search_results / all_images: the images to analyse
    image_batches,      \* image_batches as distribute_images_to_agents returned it
    vlm_tasks,          \* tasks: for each coroutine created, the pool index i of its agent
    batch_results,      \* batch_results of each coroutine
    vlm_raised,         \* paths of the images whose request raised
    vlm_requests,       \* the runner calls made: session service, session and image of each
    vlmConsumed,        \* events the last response loop took from the agent's stream
    all_results         \* all_results: the flattened records

vlmVars == <<vlmCaller, vlmPc, vlm_agents, vlm_images, image_batches, vlm_tasks,
             batch_results, vlm_raised, vlm_requests, vlmConsumed, all_results>>

VARIABLES
    \* ---- CosmoFlowAgent._run_async_impl (src/workflow/cosmo_workflow.py,
    \*      cosmo_backup_fix.py, workflow_fix.py) ----
    variant,            \* which of the three files the running CosmoFlowAgent comes from
    flowPc,             \* position of _run_async_impl
    final_answer,       \* ctx.session.state["final_answer"]
    search_tasks,       \* search_tasks
    search_runs,        \* cosmo_workflow: the result of each run_search_agent coroutine
    all_images,         \* all_images / search_results: the images the search stage pooled
    vlm_results,        \* vlm_results / all_vlm_results
    answer,             \* the local final_answer of the run
    flowYielded,        \* the events the run yielded, in order
    flowLog,            \* the agents whose run was started, in order
    flowExc,            \* the exception raised in the try block, if any
    flowConsumed,       \* events the last response loop of the workflow took
    task_results,       \* ctx.session.state["task_results"] in cosmo_backup_fix
    plan_output,        \* the text the Coordinator's run produced (main_response)
    search_query,       \* ctx.session.state["search_query"], Absent when the key is not set
    streamKind          \* whether the agents' streams end: "finite", "endless" or "silent"

flowVars == <<variant, flowPc, final_answer, search_tasks, search_runs, all_images,
              vlm_results, answer, flowYielded, flowLog, flowExc, flowConsumed,
              task_results, plan_output, search_query, streamKind>>

VARIABLES
    \* ---- root_agent, the SequentialAgent of src/main_agent/agent.py ----
    seqPc,              \* the stage whose event stream is being drained
    seqLog,             \* the sub-agents started, in order
    seqDrained          \* events drained from the Coordinator's or the Aggregator's stream

seqVars == <<seqPc, seqLog, seqDrained>>

VARIABLES
    \* ---- threads drawing keys from one ApiKeyManager ----
    threads,            \* per thread: where it is in its draw, the key and the counter value it read
    lock,               \* self.lock: the thread holding it, 0 when free
    draws_started,      \* draws begun
    draws_completed     \* draws that returned a key

thVars == <<threads, lock, draws_started, draws_completed>>

VARIABLES
    \* ---- the agent factory of src/agent/agent.py and os.environ ----
    environ,            \* os.environ['GEMINI_API_KEY'], the process-wide active credential
    factory_agents,              \* the agents built so far, in module order
    invocations,        \* invocations started
    credLast            \* the last step taken: which agent's callback or model call

credVars == <<environ, factory_agents, invocations, credLast>>

VARIABLES
    \* ---- a call of CosmoFlowAgent._fallback_aggregation ----
    fb_pc,              \* "idle", "call" before the call, "returned" after it
    fb_results,         \* the vlm_results argument
    fb_answer           \* the string returned

fbVars == <<fb_pc, fb_results, fb_answer>>

VARIABLES
    rt_pc,              \* step of the step-driven workflow: "idle", "step1" .. "step5", "done", "aborted"
    rt_tasks,           \* the Coordinator's task list read in step 1
    rt_eval,            \* the EvaluationResult held in session state
    rt_first_actions,   \* the actions list of the evaluation of step 3
    rt_invoked,         \* specialist invocations in order: [agent, query, phase]
    rt_coord,           \* number of Coordinator invocations so far
    rt_now,             \* wall clock
    rt_mark,            \* wall clock at the start of the current step
    rt_timing           \* the workflow_timing record written so far

rtVars == <<rt_pc, rt_tasks, rt_eval, rt_first_actions, rt_invoked, rt_coord, rt_now, rt_mark, rt_timing>>

VARIABLES
    \* ---- run_cosmo_workflow (src/main.py) ----
    drv_pc,             \* "idle", "setup", "get_session", "stream", "finish", "returned", "raised"
    drv_query,          \* user_query
    drv_session,        \* whether the session service holds the session
    drv_state,          \* the state of the session
    drv_final_response, \* final_response
    drv_event_count,    \* event_count
    drv_result,         \* the dict returned to the caller
    drv_exc             \* the exception that left the function, or "none"

drvVars == <<drv_pc, drv_query, drv_session, drv_state, drv_final_response, drv_event_count, drv_result, drv_exc>>

VARIABLES
    \* ---- extract_user_input (src/utils/helper_workflow.py) ----
    in_pc,              \* "idle", "call" before the call, "returned" after it
    in_ctx,             \* ctx: its request and the user_query of its session state
    in_result           \* the value returned

inVars == <<in_pc, in_ctx, in_result>>

VARIABLES
    \* ---- sub_agent_call_counter (src/main_agent/agent.py, src/agent.py) ----
    sub_agent_call_counter, \* the module-level dict: total_calls and agent_calls
    cntPc,              \* "idle", "ready", "running" (a selective-routing run), "finished"
    cntPlan,            \* the plan of the current run
    cntRuns,            \* the agent of each sub-agent run the orchestrator created
    cntCalled,          \* the runs whose before_agent_callback has been called
    cntFresh,           \* whether the counter was all zero when the current run started
    cntRounds           \* runs started in this process

cntVars == <<sub_agent_call_counter, cntPc, cntPlan, cntRuns, cntCalled, cntFresh, cntRounds>>

VARIABLES
    \* ---- batch_process_queries (src/main.py) ----
    bat_pc,             \* "idle", "loop", "turn", "returned", "raised"
    bat_queries,        \* queries
    bat_results,        \* results
    bat_log             \* the turns started and ended, in order

batVars == <<bat_pc, bat_queries, bat_results, bat_log>>

vars == <<kmVars, selVars, vlmVars, flowVars, seqVars, thVars, credVars, fbVars, rtVars, drvVars, inVars, cntVars, batVars>>

nonKm == <<selVars, vlmVars, flowVars, seqVars, thVars, credVars, fbVars, rtVars, drvVars, inVars, cntVars, batVars>>
nonSel == <<kmVars, vlmVars, flowVars, seqVars, thVars, credVars, fbVars, rtVars, drvVars, inVars, cntVars, batVars>>
nonVlm == <<kmVars, selVars, flowVars, seqVars, thVars, credVars, fbVars, rtVars, drvVars, inVars, cntVars, batVars>>
nonFlow == <<kmVars, selVars, vlmVars, seqVars, thVars, credVars, fbVars, rtVars, drvVars, inVars, cntVars, batVars>>
nonSeqSel == <<kmVars, vlmVars, flowVars, thVars, credVars, fbVars, rtVars, drvVars, inVars, cntVars, batVars>>
nonTh == <<selVars, vlmVars, flowVars, seqVars, credVars, fbVars, rtVars, drvVars, inVars, cntVars, batVars>>
nonCred == <<selVars, vlmVars, flowVars, seqVars, thVars, fbVars, rtVars, drvVars, inVars, cntVars, batVars>>
nonFb == <<kmVars, selVars, vlmVars, flowVars, seqVars, thVars, credVars, rtVars, drvVars, inVars, cntVars, batVars>>
nonRt == <<kmVars, selVars, vlmVars, flowVars, seqVars, thVars, credVars, fbVars, drvVars, inVars, cntVars, batVars>>
nonDrv == <<kmVars, selVars, vlmVars, flowVars, seqVars, thVars, credVars, fbVars, rtVars, inVars, cntVars, batVars>>
nonIn == <<kmVars, selVars, vlmVars, flowVars, seqVars, thVars, credVars, fbVars, rtVars, drvVars, cntVars, batVars>>
nonCnt == <<kmVars, selVars, vlmVars, flowVars, seqVars, thVars, credVars, fbVars, rtVars, drvVars, inVars, batVars>>
nonBat == <<kmVars, selVars, vlmVars, flowVars, seqVars, thVars, credVars, fbVars, rtVars, drvVars, inVars, cntVars>>
nonDrvBat == <<kmVars, selVars, vlmVars, flowVars, seqVars, thVars, credVars, fbVars, rtVars, inVars, cntVars>>
nonVlmFlow == <<kmVars, selVars, seqVars, thVars, credVars, fbVars, rtVars, drvVars, inVars, cntVars, batVars>>

NoKey == "no_key"

(***************************************************************************)
(* Bounds of the model.                                                    *)
(***************************************************************************)
MaxKeys == 3
MaxCalls == 3
MaxPlan == 2
MaxEvents == 1
MaxProducers == 2
MaxMergeEvents == 2
MaxImages == 3
MaxVlmAgents == 2
MaxStream == 11
MaxFlowStream == 2
MaxThreads == 2
MaxThreadKeys == 2
MaxThreadDraws == 3
MaxInvocations == 3
MaxLiveEvents == 3
MaxResults == 4

(***************************************************************************)
(* ApiKeyManager                                                           *)
(***************************************************************************)
KeyNames == {"key_a", "key_b", "key_c"}

\* Agent identities: the factory's 0, 1..3, 11.., 99 and a negative one.
AgentIds == {-1, 0, 1, 2, 3, 11, 12, 99}

RECURSIVE SeqsUpTo(_, _)
SeqsUpTo(S, n) ==
    IF n = 0 THEN {<<>>}
    ELSE LET shorter == SeqsUpTo(S, n - 1)
         IN  shorter \cup {Append(s, x) : s \in {t \in shorter : Len(t) = n - 1}, x \in S}

Range(s) == {s[i] : i \in 1..Len(s)}

\* Python's agent_id % len(self.api_keys): the result has the divisor's sign.
PyMod(a, k) == ((a % k) + k) % k

KeyIndexMutant(agent_id, pool) == IF agent_id < 0 THEN 0 ELSE (agent_id + 1) % Len(pool)

\* key_index = agent_id % len(self.api_keys)
KeyIndex(agent_id, pool) == PyMod(agent_id, Len(pool))

KmSnapshot == [api_keys |-> api_keys, current_index |-> current_index,
               usage_count |-> usage_count]

KmIdle == [op |-> "none", agent_id |-> 0, key |-> NoKey, before |-> <<>>, error |-> ""]

\* ApiKeyManager of src/agent/load_agent.py and GeminiApiKeyManager of
\* src/multi_agent/vlm/load_model.py
ManagerClasses == {"ApiKeyManager", "GeminiApiKeyManager"}

\* ApiKeyManager.__init__: the pool read from the environment, cursor 0,
\* one zeroed counter per distinct key.
KmInit ==
    /\ api_keys \in SeqsUpTo(KeyNames, MaxKeys)
    /\ current_index = 0
    /\ usage_count = [k \in Range(api_keys) |-> 0]
    /\ kmLast = KmIdle
    /\ kmAssigned = [i \in AgentIds |-> NoKey]
    /\ kmCalls = 0
    /\ manager_class \in ManagerClasses
    /\ next_keys = <<>>

\* The key manager of a process that draws no key.
KmIdleInit ==
    /\ api_keys = <<>>
    /\ current_index = 0
    /\ usage_count = <<>>
    /\ kmLast = KmIdle
    /\ kmAssigned = [i \in AgentIds |-> NoKey]
    /\ kmCalls = 0
    /\ manager_class = "ApiKeyManager"
    /\ next_keys = <<>>

\* What a draw raises on an empty pool. ApiKeyManager tests "if not
\* self.api_keys" first; GeminiApiKeyManager has no such test, so the
\* subscript of get_next_key or the modulo of get_key_for_agent raises.
NoKeysError == "ValueError: No API keys available. Please check your config.env file."

EmptyPoolError(class, op) ==
    IF class = "ApiKeyManager" THEN NoKeysError
    ELSE IF op = "next" THEN "IndexError: list index out of range"
    ELSE "ZeroDivisionError: integer modulo by zero"

NextIndexMutant(cursor, pool) == IF cursor + 1 = Len(pool) THEN cursor ELSE cursor + 1

\* (self.current_index + 1) % len(self.api_keys)
NextIndex(cursor, pool) == (cursor + 1) % Len(pool)

\* get_next_key
GetNextKey ==
    /\ kmCalls < MaxCalls
    /\ UNCHANGED nonKm
    /\ kmCalls' = kmCalls + 1
    /\ UNCHANGED manager_class
    /\ IF api_keys = <<>>
       THEN /\ kmLast' = [op |-> "next_error", agent_id |-> 0, key |-> NoKey,
                          before |-> KmSnapshot,
                          error |-> EmptyPoolError(manager_class, "next")]
            /\ UNCHANGED <<api_keys, current_index, usage_count, kmAssigned, next_keys>>
       ELSE LET key == api_keys[current_index + 1]
            IN  /\ usage_count' = [usage_count EXCEPT ![key] = @ + 1]
                /\ current_index' = NextIndex(current_index, api_keys)
                /\ kmLast' = [op |-> "next", agent_id |-> 0, key |-> key,
                              before |-> KmSnapshot, error |-> ""]
                /\ next_keys' = Append(next_keys, key)
                /\ UNCHANGED <<api_keys, kmAssigned>>

\* get_key_for_agent(agent_id)
GetKeyForAgent(agent_id) ==
    /\ kmCalls < MaxCalls
    /\ UNCHANGED nonKm
    /\ kmCalls' = kmCalls + 1
    /\ UNCHANGED <<manager_class, next_keys>>
    /\ IF api_keys = <<>>
       THEN /\ kmLast' = [op |-> "agent_error", agent_id |-> agent_id, key |-> NoKey,
                          before |-> KmSnapshot,
                          error |-> EmptyPoolError(manager_class, "agent")]
            /\ UNCHANGED <<api_keys, current_index, usage_count, kmAssigned>>
       ELSE LET key == api_keys[KeyIndex(agent_id, api_keys) + 1]
            IN  /\ usage_count' = [usage_count EXCEPT ![key] = @ + 1]
                /\ kmLast' = [op |-> "agent", agent_id |-> agent_id, key |-> key,
                              before |-> KmSnapshot, error |-> ""]
                /\ kmAssigned' = [kmAssigned EXCEPT
                                    ![agent_id] = IF @ = NoKey THEN key ELSE @]
                /\ UNCHANGED <<api_keys, current_index>>

ZeroedCountsMutant(pool) == [k \in Range(pool) |-> IF k = pool[1] THEN 0 ELSE usage_count[k]]

\* {key: 0 for key in self.api_keys}
ZeroedCounts(pool) == [k \in Range(pool) |-> 0]

\* reset_usage_stats
ResetUsageStats ==
    /\ kmCalls < MaxCalls
    /\ UNCHANGED nonKm
    /\ kmCalls' = kmCalls + 1
    /\ usage_count' = ZeroedCounts(api_keys)
    /\ kmLast' = [op |-> "reset", agent_id |-> 0, key |-> NoKey, before |-> KmSnapshot,
                  error |-> ""]
    /\ UNCHANGED <<api_keys, current_index, kmAssigned, manager_class, next_keys>>

KmNext ==
    \/ GetNextKey
    \/ \E agent_id \in AgentIds : GetKeyForAgent(agent_id)
    \/ ResetUsageStats

(***************************************************************************)
(* CustomSelectiveAgent10 and _merge_agent_run                             *)
(***************************************************************************)
Absent == "<absent>"

\* A state key that was never written, and one holding a value.
Unset == [set |-> FALSE, value |-> <<>>]
Written(v) == [set |-> TRUE, value |-> v]

\* No "sub_agent_plan" in session state.
MissingPlan == [type |-> "missing", json |-> FALSE, list |-> FALSE, items |-> <<>>]

\* tool_agents of src/main_agent/agent.py, cut to three specialists.
sub_agents == <<"Agent1", "Agent2", "Agent3">>

\* self.name of the orchestrator instance built in src/main_agent/agent.py.
SelfName == "SelectiveSubAgentRunner"

\* self._output_key
OutputKey == "sub_agent_outputs"

\* A plan entry is a JSON object that may lack either field; "AgentX" is not
\* in the pool.
WellFormedEntries == {[agent |-> "Agent1", query |-> "q1"],
                      [agent |-> "Agent1", query |-> "q2"],
                      [agent |-> "AgentX", query |-> "q2"]}
MalformedEntries == {[agent |-> "Agent1", query |-> Absent],
                     [agent |-> Absent, query |-> "q1"]}
PlanEntries == WellFormedEntries \cup MalformedEntries

\* Plans of well-formed entries that all name pool agents.
MergePlans ==
    {SubSeq(<<[agent |-> "Agent1", query |-> "q1"], [agent |-> "Agent2", query |-> "q1"],
              [agent |-> "Agent1", query |-> "q2"], [agent |-> "Agent3", query |-> "q2"]>>,
            1, n) : n \in 1..MaxProducers}

\* What session state may hold under "sub_agent_plan": nothing; a string that
\* is not JSON, that encodes a number, or that encodes any list of entries
\* (what the Coordinator's output key stores); or a list stored as such.
PlanValues ==
    {MissingPlan,
     [type |-> "str", json |-> FALSE, list |-> FALSE, items |-> <<>>],
     [type |-> "str", json |-> TRUE, list |-> FALSE, items |-> <<>>]}
    \cup {[type |-> "str", json |-> TRUE, list |-> TRUE, items |-> es] :
            es \in SeqsUpTo(PlanEntries, MaxPlan)}
    \cup {[type |-> "list", json |-> FALSE, list |-> TRUE, items |-> es] :
            es \in {<<>>, <<[agent |-> "Agent2", query |-> "q1"]>>,
                    <<[agent |-> "Agent2", query |-> "q1"],
                      [agent |-> "Agent1", query |-> "q2"]>>}}

\* plan = ctx.session.state.get("sub_agent_plan", ""), then
\* task_list = plan if isinstance(plan, list) else json.loads(plan)
ParsePlan(plan) ==
    IF plan.type = "list" THEN [err |-> "", iterable |-> TRUE, task_list |-> plan.items]
    ELSE IF plan.type = "missing" \/ ~plan.json
         THEN [err |-> "ValueError: Invalid JSON in sub_agent_plan",
               iterable |-> FALSE, task_list |-> <<>>]
         ELSE [err |-> "", iterable |-> plan.list, task_list |-> plan.items]

HasBoth(task) == task.agent # Absent /\ task.query # Absent

\* task_map = {task["agent"]: task["query"] for task in task_list
\*             if "agent" in task and "query" in task}: the last entry wins.
TaskMap(task_list) ==
    LET named == {task_list[i].agent : i \in {j \in 1..Len(task_list) : HasBoth(task_list[j])}}
        last(a) == CHOOSE i \in 1..Len(task_list) :
                      /\ HasBoth(task_list[i]) /\ task_list[i].agent = a
                      /\ \A j \in (i + 1)..Len(task_list) :
                            ~(HasBoth(task_list[j]) /\ task_list[j].agent = a)
    IN  [a \in named |-> task_list[last(a)].query]

SelectedAgentsAllMutant(task_map) == sub_agents

\* selected_agents = [agent for agent in self.sub_agents if agent.name in task_map]
SelectedAgents(task_map) ==
    SelectSeq(sub_agents, LAMBDA a : a \in DOMAIN task_map)

\* _create_branch_ctx_for_sub_agent: the parent's branch (empty here) extended
\* by "<orchestrator>.<sub-agent>".
CreateBranch(sub_agent) == <<SelfName, sub_agent>>

NewRunDedupMutant(acc, task) ==
    IF \E i \in 1..Len(acc) : acc[i].agent = task.agent THEN acc
    ELSE Append(acc, [agent |-> task.agent, input |-> task.query,
                      branch |-> CreateBranch(task.agent)])

\* One pass of the body of `for task in task_list` for a task whose agent is
\* in the pool: a branch context with the task's query as input, wrapped in
\* track_output and appended to agent_runs.
NewRun(acc, task) ==
    Append(acc, [agent |-> task.agent, input |-> task.query,
                 branch |-> CreateBranch(task.agent)])

\* for task in task_list: task["agent"], task["query"] (KeyError when the
\* field is missing), look the agent up, skip it with a warning when it is
\* not in the pool.
RECURSIVE BuildRuns(_, _, _)
BuildRuns(task_list, i, acc) ==
    IF i > Len(task_list) THEN [err |-> "", runs |-> acc]
    ELSE LET task == task_list[i]
         IN  IF task.agent = Absent THEN [err |-> "KeyError: agent", runs |-> <<>>]
             ELSE IF task.query = Absent THEN [err |-> "KeyError: query", runs |-> <<>>]
             ELSE IF task.agent \notin Range(sub_agents)
                  THEN BuildRuns(task_list, i + 1, acc)
                  ELSE BuildRuns(task_list, i + 1, NewRun(acc, task))

\* The synchronous part of _run_async_impl up to the first await of the merge.
Prepare(plan) ==
    LET parsed == ParsePlan(plan)
        task_map == TaskMap(parsed.task_list)
        built == BuildRuns(parsed.task_list, 1, <<>>)
    IN  IF parsed.err # "" THEN [err |-> parsed.err, runs |-> <<>>]
        ELSE IF ~parsed.iterable
             THEN [err |-> "TypeError: object is not iterable", runs |-> <<>>]
        ELSE IF DOMAIN task_map = {}
             THEN [err |-> "ValueError: No valid sub-agent entries in plan.", runs |-> <<>>]
        ELSE IF SelectedAgents(task_map) = <<>>
             THEN [err |-> "ValueError: No sub-agent matches the plan.", runs |-> <<>>]
        ELSE built

NoEvent == [run |-> 0, author |-> "", n |-> 0, content |-> FALSE]
Running == [st |-> "running", ev |-> NoEvent]

SelInit ==
    /\ \E plan \in PlanValues :
          session_state = [k \in {"sub_agent_plan", OutputKey} |->
                             IF k = "sub_agent_plan" THEN plan ELSE Unset]
    /\ selPc = "start"
    /\ selError = ""
    /\ agent_runs = <<>>
    /\ tasks = <<>>
    /\ pending_tasks = {}
    /\ done = {}
    /\ collected_outputs = <<>>
    /\ produced = <<>>
    /\ yielded = <<>>
    /\ outWrites = 0
    /\ eventLimit = MaxEvents

\* A run of the orchestrator on a plan of well-formed entries that all name
\* pool agents, with longer sub-agent streams: the merge under load.
MergeInit ==
    /\ \E items \in MergePlans :
          session_state = [k \in {"sub_agent_plan", OutputKey} |->
                             IF k = "sub_agent_plan"
                             THEN [type |-> "list", json |-> FALSE, list |-> TRUE,
                                   items |-> items]
                             ELSE Unset]
    /\ selPc = "start"
    /\ selError = ""
    /\ agent_runs = <<>>
    /\ tasks = <<>>
    /\ pending_tasks = {}
    /\ done = {}
    /\ collected_outputs = <<>>
    /\ produced = <<>>
    /\ yielded = <<>>
    /\ outWrites = 0
    /\ eventLimit = MaxMergeEvents

\* The merge of two producers, A (the run of Agent1) and B (the run of Agent2).
MergeLiveInit ==
    /\ session_state = [k \in {"sub_agent_plan", OutputKey} |->
                           IF k = "sub_agent_plan"
                           THEN [type |-> "list", json |-> FALSE, list |-> TRUE,
                                 items |-> <<[agent |-> "Agent1", query |-> "q1"],
                                             [agent |-> "Agent2", query |-> "q1"]>>]
                           ELSE Unset]
    /\ selPc = "start"
    /\ selError = ""
    /\ agent_runs = <<>>
    /\ tasks = <<>>
    /\ pending_tasks = {}
    /\ done = {}
    /\ collected_outputs = <<>>
    /\ produced = <<>>
    /\ yielded = <<>>
    /\ outWrites = 0
    /\ eventLimit = MaxLiveEvents

\* The orchestrator before any run.
SelIdleInit ==
    /\ session_state = [k \in {"sub_agent_plan", OutputKey} |->
                           IF k = "sub_agent_plan" THEN MissingPlan ELSE Unset]
    /\ selPc = "idle"
    /\ selError = ""
    /\ agent_runs = <<>>
    /\ tasks = <<>>
    /\ pending_tasks = {}
    /\ done = {}
    /\ collected_outputs = <<>>
    /\ produced = <<>>
    /\ yielded = <<>>
    /\ outWrites = 0
    /\ eventLimit = 0

\* ctx.session.state[self._output_key] = collected_outputs
SaveOutputs(state, outputs) == [state EXCEPT ![OutputKey] = Written(outputs)]

\* _run_async_impl from its first line to the first asyncio.wait of
\* _merge_agent_run: it raises, or it has created one task per run.
RunStart ==
    /\ selPc = "start"
    /\ UNCHANGED nonSel
    /\ LET prep == Prepare(session_state["sub_agent_plan"])
       IN  IF prep.err # ""
           THEN /\ selPc' = "failed"
                /\ selError' = prep.err
                /\ UNCHANGED <<session_state, agent_runs, tasks, pending_tasks,
                               produced, outWrites, eventLimit>>
           ELSE /\ agent_runs' = prep.runs
                /\ tasks' = [i \in 1..Len(prep.runs) |-> Running]
                /\ pending_tasks' = 1..Len(prep.runs)
                /\ produced' = [i \in 1..Len(prep.runs) |-> <<>>]
                /\ selError' = ""
                /\ IF prep.runs = <<>>
                   THEN /\ selPc' = "done"
                        /\ session_state' = SaveOutputs(session_state, collected_outputs)
                        /\ outWrites' = outWrites + 1
                   ELSE /\ selPc' = "wait"
                        /\ UNCHANGED <<session_state, outWrites>>
    /\ UNCHANGED <<done, collected_outputs, yielded, eventLimit>>

ProducedBy(i) == produced[i]

\* Which events carry content: Agent2's first event of a run does not (a bare
\* state update), every other event does.
HasContent(agent, n) == ~(agent = "Agent2" /\ n = 1)

TrackOutputOverwriteMutant(outputs, agent, event) ==
    IF event.content
    THEN [a \in DOMAIN outputs \cup {agent} |->
            IF a = agent THEN <<event>> ELSE outputs[a]]
    ELSE outputs

\* track_output: if hasattr(event, 'content') and event.content:
\*     collected_outputs.setdefault(agent.name, []).append(event.content)
TrackOutput(outputs, agent, event) ==
    IF event.content
    THEN [a \in DOMAIN outputs \cup {agent} |->
            IF a = agent
            THEN (IF a \in DOMAIN outputs THEN Append(outputs[a], event) ELSE <<event>>)
            ELSE outputs[a]]
    ELSE outputs

\* The sub-agent of run i produces its next event: track_output records its
\* content and the task of run i finishes with the event as its result.
TaskEvent(i) ==
    /\ selPc \in {"wait", "loop"}
    /\ UNCHANGED nonSel
    /\ i \in DOMAIN tasks
    /\ tasks[i].st = "running"
    /\ Len(ProducedBy(i)) < eventLimit
    /\ LET event == [run |-> i, author |-> agent_runs[i].agent,
                     n |-> Len(ProducedBy(i)) + 1,
                     content |-> HasContent(agent_runs[i].agent, Len(ProducedBy(i)) + 1)]
       IN  /\ produced' = [produced EXCEPT ![i] = Append(@, event)]
           /\ collected_outputs' = TrackOutput(collected_outputs, agent_runs[i].agent, event)
           /\ tasks' = [tasks EXCEPT ![i] = [st |-> "event", ev |-> event]]
    /\ UNCHANGED <<session_state, selPc, selError, agent_runs, pending_tasks, done,
                   yielded, outWrites, eventLimit>>

\* The sub-agent of run i is exhausted: the task ends in StopAsyncIteration.
TaskStop(i) ==
    /\ selPc \in {"wait", "loop"}
    /\ UNCHANGED nonSel
    /\ i \in DOMAIN tasks
    /\ tasks[i].st = "running"
    /\ tasks' = [tasks EXCEPT ![i] = [st |-> "stop", ev |-> NoEvent]]
    /\ UNCHANGED <<session_state, selPc, selError, agent_runs, pending_tasks, done,
                   collected_outputs, produced, yielded, outWrites, eventLimit>>

\* The stream of run i raises: the task ends in that exception.
TaskFail(i) ==
    /\ selPc \in {"wait", "loop"}
    /\ UNCHANGED nonSel
    /\ i \in DOMAIN tasks
    /\ tasks[i].st = "running"
    /\ tasks' = [tasks EXCEPT ![i] = [st |-> "error", ev |-> NoEvent]]
    /\ UNCHANGED <<session_state, selPc, selError, agent_runs, pending_tasks, done,
                   collected_outputs, produced, yielded, outWrites, eventLimit>>

WaitReturnsAllCompletedMutant == \A i \in pending_tasks : tasks[i].st # "running"

\* return_when=asyncio.FIRST_COMPLETED: the wait returns as soon as one
\* pending task has finished.
WaitReturns == \E i \in pending_tasks : tasks[i].st # "running"

\* done, pending_tasks = await asyncio.wait(pending_tasks, FIRST_COMPLETED)
MergeWait ==
    /\ selPc = "wait"
    /\ UNCHANGED nonSel
    /\ WaitReturns
    /\ done' = {i \in pending_tasks : tasks[i].st # "running"}
    /\ pending_tasks' = {i \in pending_tasks : tasks[i].st = "running"}
    /\ selPc' = "loop"
    /\ UNCHANGED <<session_state, selError, agent_runs, tasks, collected_outputs,
                   produced, yielded, outWrites, eventLimit>>

\* new_task = asyncio.create_task(agent_runs[i].__anext__()); tasks[i] = new_task
Rearm(i) == Running

AddPendingForgetMutant(pending, i) == pending

\* pending_tasks.add(new_task)
AddPending(pending, i) == pending \cup {i}

YieldResultDropMutant(out, event) == out

\* yield task.result(): the caller receives the event before the merge goes on
YieldResult(out, event) == Append(out, event)

SwallowedMutant(st) == st \in {"stop", "error"}

\* except StopAsyncIteration: continue
Swallowed(st) == st = "stop"

\* One pass of `for task in done`, for the task of run i: its event is yielded
\* and the run re-armed, or its StopAsyncIteration is swallowed, or the
\* exception of its stream leaves task.result(), the merge and
\* _run_async_impl.  When the for loop and the while loop end with it, the
\* outputs are saved.
MergeHandle(i) ==
    /\ selPc = "loop"
    /\ UNCHANGED nonSel
    /\ i \in done
    /\ done' = done \ {i}
    /\ IF tasks[i].st = "event"
       THEN /\ yielded' = YieldResult(yielded, tasks[i].ev)
            /\ tasks' = [tasks EXCEPT ![i] = Rearm(i)]
            /\ pending_tasks' = AddPending(pending_tasks, i)
       ELSE IF Swallowed(tasks[i].st)
            THEN /\ tasks' = [tasks EXCEPT ![i] =
                              [st |-> IF @.st = "stop" THEN "gone" ELSE @.st, ev |-> NoEvent]]
                 /\ UNCHANGED <<yielded, pending_tasks>>
            ELSE UNCHANGED <<tasks, yielded, pending_tasks>>
    /\ IF tasks[i].st # "event" /\ ~Swallowed(tasks[i].st)
       THEN /\ selPc' = "failed"
            /\ selError' = "sub-agent failed"
            /\ UNCHANGED <<session_state, outWrites>>
       ELSE /\ UNCHANGED selError
            /\ IF done' = {} /\ pending_tasks' = {}
               THEN /\ selPc' = "done"
                    /\ session_state' = SaveOutputs(session_state, collected_outputs)
                    /\ outWrites' = outWrites + 1
               ELSE /\ selPc' = IF done' = {} THEN "wait" ELSE "loop"
                    /\ UNCHANGED <<session_state, outWrites>>
    /\ UNCHANGED <<agent_runs, collected_outputs, produced, eventLimit>>

SelNext ==
    \/ RunStart
    \/ \E i \in DOMAIN tasks : TaskEvent(i)
    \/ \E i \in DOMAIN tasks : TaskStop(i)
    \/ MergeWait
    \/ \E i \in DOMAIN tasks : MergeHandle(i)

\* The fan-out with sub-agent streams that may raise.
SelFailNext ==
    \/ RunStart
    \/ \E i \in DOMAIN tasks : TaskEvent(i)
    \/ \E i \in DOMAIN tasks : TaskStop(i)
    \/ \E i \in DOMAIN tasks : TaskFail(i)
    \/ MergeWait
    \/ \E i \in DOMAIN tasks : MergeHandle(i)

(***************************************************************************)
(* The VLM fan-out: distribute_images_to_agents, run_vlm_agent_batch and    *)
(* run_all_vlm_batches                                                     *)
(***************************************************************************)
VlmAgentNames == <<"VLMAgent1", "VLMAgent2", "VLMAgent3", "VLMAgent4", "VLMAgent5">>

\* The k-th image of a search result: a dict with a path and, at every
\* third position from the first, an id.  origin tells which search agent's
\* response the image came from and its position there (<<0, k>> when the
\* list did not come from the search stage of cosmo_workflow).
Image(k) ==
    [has_id |-> k % 3 = 1, id |-> <<"img", k>>, path |-> <<"path", k>>, origin |-> <<0, k>>]

ImageList(n) == [k \in 1..n |-> Image(k)]

\* image.get("id", default)
ImageGet(image, default) == IF image.has_id THEN image.id ELSE default

Min(a, b) == IF a <= b THEN a ELSE b

\* Python's s[start:end] for 0 <= start <= end
PySlice(s, start, end) == SubSeq(s, Min(start, Len(s)) + 1, Min(end, Len(s)))

BatchSizeMutant(i, base_batch_size, remainder) ==
    base_batch_size + (IF i <= remainder THEN 1 ELSE 0)

\* batch_size = base_batch_size + (1 if i < remainder else 0)
BatchSize(i, base_batch_size, remainder) ==
    base_batch_size + (IF i < remainder THEN 1 ELSE 0)

\* for i in range(num_agents): the batches built from index i on
RECURSIVE DistributeLoop(_, _, _, _, _)
DistributeLoop(images, num_agents, i, start_idx, batches) ==
    IF i = num_agents THEN batches
    ELSE LET num_images == Len(images)
             batch_size == BatchSize(i, num_images \div num_agents, num_images % num_agents)
             end_idx == start_idx + batch_size
             batch == PySlice(images, start_idx, end_idx)
         IN  DistributeLoop(images, num_agents, i + 1, end_idx, Append(batches, batch))

distribute_images_to_agents(images, agents) ==
    DistributeLoop(images, Len(agents), 0, 0, <<>>)

\* Cap of the response loop: step 3 of the workflows stops after
\* max_vlm_events events, the loop of vlm_runner.py has no counter.
NoCap == 0
max_vlm_events == 10

\* The caps of the response loops of cosmo_workflow: steps 1, 2 and 4.
max_main_events == 5
max_events == 20

max_aggregator_eventsMutant == NoCap

max_aggregator_events == 5

LoopCap(caller) == IF caller = "vlm_runner" THEN NoCap ELSE max_vlm_events

\* An agent's event stream: events with a text part ("text") and events
\* without ("other"), after which the stream ends or raises.  The loops stop
\* at the first text, so nothing need follow it.
Streams(bound) ==
    {[events |-> [k \in 1..n |-> "other"] \o tail, fails |-> f] :
        n \in 0..bound, tail \in {<<>>, <<"text">>}, f \in BOOLEAN}

FailingStream(stream) == stream.fails /\ "text" \notin Range(stream.events)

\* Streams of at most bound events of which only a text-free one fails.
StreamsUpTo(bound) ==
    {st \in Streams(bound) : Len(st.events) <= bound /\ (st.fails => FailingStream(st))}

\* A stream that never ends: after its first events the agent keeps
\* producing events without text, more of them than any loop's cap.
EndlessLen == max_events + 1

Endless(streams) ==
    {[events |-> st.events \o [k \in 1..EndlessLen |-> "other"], fails |-> FALSE] :
        st \in {x \in streams : ~x.fails}}

\* The streams the agents of a workflow run produce: streams that end, streams
\* that never end, or ("silent") streams that never end and never carry a
\* text or a search result.
AgentStreams(streams) ==
    IF streamKind = "finite" THEN streams
    ELSE IF streamKind = "endless" THEN Endless(streams)
    ELSE {st \in Endless(streams) : Range(st.events) = {"other"}}

\* async for event in ...: a loop over a stream returns when it breaks or
\* when the stream ends; on a stream that never ends it returns only if it
\* broke before the events modelled were used up.
LoopReturns(r, stream) ==
    streamKind # "finite" => r.event_count < Len(stream.events)

\* The streams a VLM runner may produce: long ones for the standalone batch
\* runner, short ones inside a workflow run.
VlmStreams(caller) ==
    IF caller = "vlm_runner" THEN StreamsUpTo(MaxStream)
    ELSE AgentStreams(StreamsUpTo(MaxFlowStream))

\* async for event in ...: take the first text as the response; with a cap,
\* stop after cap events.  The result tells whether the stream raised.
RECURSIVE ResponseLoop(_, _, _)
ResponseLoop(stream, cap, event_count) ==
    IF event_count = Len(stream.events)
    THEN [text |-> "", event_count |-> event_count, raised |-> stream.fails]
    ELSE LET n == event_count + 1
         IN  IF stream.events[n] = "text"
             THEN [text |-> "answer", event_count |-> n, raised |-> FALSE]
             ELSE IF cap # NoCap /\ n >= cap
                  THEN [text |-> "", event_count |-> n, raised |-> FALSE]
                  ELSE ResponseLoop(stream, cap, n)

ErrorPrefix == "Loi xu ly anh: "
ErrorMessage == "request failed"

\* The record appended for image number i (0-based) of the batch of agent
\* agent_idx (1-based): the response, or the error text built from the exception.
BatchRecord(agent, image, agent_idx, i, r) ==
    [image_id |-> ImageGet(image, <<"batch", agent_idx, "img", i>>),
     vlm_agent |-> agent,
     response |-> IF r.raised THEN [prefix |-> ErrorPrefix, text |-> ErrorMessage]
                  ELSE [prefix |-> "", text |-> r.text]]

SessionServiceMutant(t, i) == <<"InMemorySessionService", 0, 0>>

\* vlm_session_service = InMemorySessionService(): the object constructed in
\* pass i (0-based) of coroutine t, a new one at every construction.
SessionService(t, i) == <<"InMemorySessionService", t, i>>

\* vlm_session_id = f"vlm_{agent.name}_{image.get('id', 'unknown')}"
VlmSessionId(agent, image) == <<"vlm", agent, ImageGet(image, <<"unknown">>)>>

\* create_session(...) in the new service, then vlm_runner.run_async(...) on
\* that session with the content built from the image.
VlmSessionRequest(t, i, agent, image) ==
    [service |-> SessionService(t, i), app_name |-> "CosmoVLM", user_id |-> "vlm_user",
     session_id |-> VlmSessionId(agent, image), image |-> image.path]

NonEmptyBatchesMutant(batches, i) == [t \in 1..(Len(batches) - i) |-> i + t - 1]

\* tasks = [run_vlm_agent_batch(vlm_agents[i], batch, user_input, i + 1)
\*          for i, batch in enumerate(image_batches) if batch]
RECURSIVE NonEmptyBatches(_, _)
NonEmptyBatches(batches, i) ==
    IF i = Len(batches) THEN <<>>
    ELSE (IF batches[i + 1] # <<>> THEN <<i>> ELSE <<>>) \o NonEmptyBatches(batches, i + 1)

RECURSIVE ExtendAllMutant(_, _)
ExtendAllMutant(results, t) ==
    IF t > Len(results) THEN <<>>
    ELSE ExtendAllMutant(results, t + 1) \o results[t]

\* for r in results: all_results.extend(r), from result t on
RECURSIVE ExtendAll(_, _)
ExtendAll(results, t) ==
    IF t > Len(results) THEN <<>>
    ELSE results[t] \o ExtendAll(results, t + 1)

\* A call of run_all_vlm_batches with up to MaxImages images and a pool of up
\* to MaxVlmAgents agents.
VlmInit ==
    /\ vlmCaller = "vlm_runner"
    /\ vlmPc = "start"
    /\ \E m \in 1..MaxVlmAgents : vlm_agents = SubSeq(VlmAgentNames, 1, m)
    /\ \E n \in 0..MaxImages : vlm_images = ImageList(n)
    /\ image_batches = <<>>
    /\ vlm_tasks = <<>>
    /\ batch_results = <<>>
    /\ vlm_raised = {}
    /\ vlm_requests = {}
    /\ vlmConsumed = 0
    /\ all_results = <<>>

VlmIdleInit ==
    /\ vlmCaller = "none"
    /\ vlmPc = "idle"
    /\ vlm_agents = <<>>
    /\ vlm_images = <<>>
    /\ image_batches = <<>>
    /\ vlm_tasks = <<>>
    /\ batch_results = <<>>
    /\ vlm_raised = {}
    /\ vlm_requests = {}
    /\ vlmConsumed = 0
    /\ all_results = <<>>

\* image_batches = distribute_images_to_agents(...); one coroutine per
\* non-empty batch.
VlmStart ==
    /\ vlmPc = "start"
    /\ UNCHANGED nonVlm
    /\ image_batches' = distribute_images_to_agents(vlm_images, vlm_agents)
    /\ vlm_tasks' = NonEmptyBatches(image_batches', 0)
    /\ batch_results' = [t \in DOMAIN vlm_tasks' |-> <<>>]
    /\ vlmPc' = "running"
    /\ UNCHANGED <<vlmCaller, vlm_agents, vlm_images, vlm_raised, vlm_requests, vlmConsumed,
                   all_results>>

\* One pass of `for i, image in enumerate(images_batch)` in coroutine t: the
\* request for the image, its response loop, and the record appended by the
\* try body or by the except clause.
VlmRequest(t) ==
    /\ vlmPc = "running"
    /\ UNCHANGED nonVlm
    /\ LET agent_i == vlm_tasks[t]
           batch == image_batches[agent_i + 1]
           i == Len(batch_results[t])
       IN  /\ i < Len(batch)
           /\ \E stream \in VlmStreams(vlmCaller) :
                 LET r == ResponseLoop(stream, LoopCap(vlmCaller), 0)
                     image == batch[i + 1]
                 IN  /\ LoopReturns(r, stream)
                     /\ batch_results' =
                           [batch_results EXCEPT ![t] =
                               Append(@, BatchRecord(vlm_agents[agent_i + 1], image,
                                                     agent_i + 1, i, r))]
                     /\ vlm_raised' = IF r.raised THEN vlm_raised \cup {image.path}
                                      ELSE vlm_raised
                     /\ vlm_requests' = vlm_requests \cup
                           {VlmSessionRequest(t, i, vlm_agents[agent_i + 1], image)}
                     /\ vlmConsumed' = r.event_count
    /\ UNCHANGED <<vlmCaller, vlmPc, vlm_agents, vlm_images, image_batches, vlm_tasks,
                   all_results>>

\* results = await asyncio.gather(*tasks, return_exceptions=True) and the
\* flattening of the lists; every coroutine returns its list.
VlmGather ==
    /\ vlmPc = "running"
    /\ UNCHANGED nonVlm
    /\ \A t \in DOMAIN vlm_tasks :
          Len(batch_results[t]) = Len(image_batches[vlm_tasks[t] + 1])
    /\ all_results' = ExtendAll(batch_results, 1)
    /\ vlmPc' = "done"
    /\ UNCHANGED <<vlmCaller, vlm_agents, vlm_images, image_batches, vlm_tasks,
                   batch_results, vlm_raised, vlm_requests, vlmConsumed>>

VlmNext ==
    \/ VlmStart
    \/ \E t \in DOMAIN vlm_tasks : VlmRequest(t)
    \/ VlmGather

(***************************************************************************)
(* CosmoFlowAgent: the VLM workflow in its three variants                  *)
(***************************************************************************)
Variants == {"cosmo_workflow", "cosmo_backup_fix", "workflow_fix"}

\* name of the cosmo_flow_agent instance
FlowName == "CosmoFlowAgent"

\* search_agents of src/agent/agent.py
search_agents == <<"SearchAgent1", "SearchAgent2", "SearchAgent3">>

\* A text: an f-string's fixed prefix and the value formatted into it.
Text(prefix, text) == [prefix |-> prefix, text |-> text]
Plain(text) == Text("", text)

\* f"Xin lỗi, có lỗi xảy ra: {str(e)}"
ApologyPrefix == "Xin loi, co loi xay ra: "
\* "Xin lỗi, không tìm thấy hình ảnh liên quan đến câu hỏi của bạn."
NoImagesAnswer == Plain("Xin loi, khong tim thay hinh anh lien quan den cau hoi cua ban.")
\* "Không thể tạo câu trả lời cuối cùng."
DefaultAnswer == Plain("Khong the tao cau tra loi cuoi cung.")
\* "Xin lỗi, không tìm thấy thông tin liên quan đến câu hỏi của bạn."
FallbackNoResults == Plain("Xin loi, khong tim thay thong tin lien quan den cau hoi cua ban.")
\* "Tôi không thể tìm thấy thông tin phù hợp để trả lời câu hỏi này."
FallbackNoMeaning == Plain("Toi khong the tim thay thong tin phu hop de tra loi cau hoi nay.")
\* A final answer an earlier turn left in session state.
StaleAnswer == Plain("answer of an earlier turn")

NoExc == [raised |-> FALSE, msg |-> "", at |-> 0]
Raised(msg, log) == [raised |-> TRUE, msg |-> msg, at |-> Len(log)]

UserQuery == "user_query"

\* The fallback tasks of step 1.
DefaultTasks ==
    <<[agent |-> "SearchAgent1", query |-> UserQuery],
      [agent |-> "SearchAgent2", query |-> "related to user_query"],
      [agent |-> "SearchAgent3", query |-> "information about user_query"]>>

\* Task lists the Coordinator may produce: none to four tasks, and lists
\* with an entry that lacks a field.
FlowTaskLists ==
    {SubSeq(DefaultTasks \o <<[agent |-> "SearchAgent1", query |-> "more"]>>, 1, n) :
        n \in {0, 1, 4}}
    \cup {<<[agent |-> "SearchAgent2", query |-> "related to user_query"]>>}
    \cup {<<[agent |-> Absent, query |-> UserQuery]>>,
          <<[agent |-> "SearchAgent1", query |-> Absent]>>}

\* What the Coordinator's text, or the task_results key, may hold: text that
\* is not JSON, JSON that is not a list, a task list as JSON text.
FlowPlanTexts ==
    {[type |-> "str", json |-> FALSE, list |-> FALSE, items |-> <<>>],
     [type |-> "str", json |-> TRUE, list |-> FALSE, items |-> <<>>]}
    \cup {[type |-> "str", json |-> TRUE, list |-> TRUE, items |-> es] : es \in FlowTaskLists}

EmptyText == [type |-> "str", json |-> FALSE, list |-> FALSE, items |-> <<>>]

\* task_results in session state: absent, empty, a text, or a stored list.
TaskResultsValues ==
    {MissingPlan, [type |-> "empty", json |-> FALSE, list |-> FALSE, items |-> <<>>]}
    \cup FlowPlanTexts
    \cup {[type |-> "list", json |-> FALSE, list |-> TRUE, items |-> DefaultTasks]}

\* Number of images one image_search response carries.
FoundCounts == {0, 1}

\* main_response after the response loop of step 1: the text of the first
\* event with a text, "" when the loop ended without one.
MainResponse(r, reply) ==
    IF r.raised THEN MissingPlan ELSE IF r.text = "" THEN EmptyText ELSE reply

Step1TasksMutant(r, reply) ==
    IF r.raised \/ ~MainResponse(r, reply).json
    THEN [err |-> "main agent failed", tasks |-> <<>>]
    ELSE [err |-> "", tasks |-> MainResponse(r, reply).items]

\* cosmo_workflow step 1, after the response loop: json.loads of the text,
\* the logging loop over the tasks, the JSONDecodeError fallback, and the
\* re-raise of any other exception.
Step1Tasks(r, reply) ==
    IF r.raised THEN [err |-> "main agent failed", tasks |-> <<>>]
    ELSE LET text == MainResponse(r, reply)
         IN  IF ~text.json THEN [err |-> "", tasks |-> DefaultTasks]
             ELSE IF ~text.list THEN [err |-> "TypeError", tasks |-> <<>>]
             ELSE IF \E k \in 1..Len(text.items) : ~HasBoth(text.items[k])
                  THEN [err |-> "KeyError", tasks |-> <<>>]
                  ELSE [err |-> "", tasks |-> text.items]

\* The stream of a search agent: as Streams, the reply being a function
\* response with images.
SearchStreams ==
    {[events |-> [k \in 1..Len(st.events) |->
                     IF st.events[k] = "text" THEN "images" ELSE "other"],
      fails |-> st.fails] : st \in StreamsUpTo(MaxFlowStream)}

\* run_search_agent's loop: return at the first function response with
\* images, stop after max_events events.
RECURSIVE SearchLoop(_, _, _, _)
SearchLoop(stream, found, cap, event_count) ==
    IF event_count = Len(stream.events)
    THEN [images |-> 0, event_count |-> event_count, raised |-> stream.fails]
    ELSE LET n == event_count + 1
         IN  IF stream.events[n] = "images"
             THEN [images |-> found, event_count |-> n, raised |-> FALSE]
             ELSE IF n >= cap
                  THEN [images |-> 0, event_count |-> n, raised |-> FALSE]
                  ELSE SearchLoop(stream, found, cap, n)

\* What the stream of a search agent delivers within the first cap events:
\* whether a function response with images is among them and how many images
\* the first one carries.
NoResponse == [seen |-> FALSE, n |-> 0]
Delivered(stream, found, cap) ==
    IF \E k \in 1..Len(stream.events) : k <= cap /\ stream.events[k] = "images"
    THEN [seen |-> TRUE, n |-> found]
    ELSE NoResponse

\* The list a run_search_agent coroutine returns: image j of agent i's response.
SearchResult(i, n) == [j \in 1..n |-> <<i, j>>]

RECURSIVE ExtendImagesMutant(_, _)
ExtendImagesMutant(runs, i) ==
    IF i > Len(runs) THEN <<>>
    ELSE ExtendImagesMutant(runs, i + 1) \o SearchResult(i, runs[i].images)

\* for i, result in enumerate(search_results_list): all_images.extend(result),
\* from result i on
RECURSIVE ExtendImages(_, _)
ExtendImages(runs, i) ==
    IF i > Len(runs) THEN <<>>
    ELSE SearchResult(i, runs[i].images) \o ExtendImages(runs, i + 1)

\* The pooled list: its k-th image is the dict the k-th extension added.
PoolImages(origins) == [k \in 1..Len(origins) |-> [Image(k) EXCEPT !.origin = origins[k]]]

\* search_tasks[:len(self.search_agents)]
SearchTasksLimited(tasks_) == SubSeq(tasks_, 1, Min(Len(tasks_), Len(search_agents)))

RECURSIVE SumImages(_)
SumImages(runs) == IF runs = <<>> THEN 0 ELSE Head(runs).images + SumImages(Tail(runs))

\* The events of a drained stream as the workflow re-yields them.
AgentEvents(author, events) ==
    [k \in 1..Len(events) |-> [author |-> author, text |-> Plain(events[k])]]

\* Streams that a loop drains to their end: any sequence of events of the
\* given kinds, after which the stream ends or raises.
DrainStreams(kinds) ==
    {[events |-> es, fails |-> f] : es \in SeqsUpTo(kinds, MaxFlowStream), f \in BOOLEAN}

CountOf(events, kind) == Len(SelectSeq(events, LAMBDA e : e = kind))

\* A response that hides the sentinel in other text and in upper case.
SentinelResponse == "Toi KHONG BIET vi anh mo"

\* str.lower() on the response texts of the model
Lower(text) == IF text = SentinelResponse THEN "toi khong biet vi anh mo" ELSE text

\* "không biết" in text
ContainsSentinel(text) == text \in {"khong biet", "toi khong biet vi anh mo"}

\* result["response"] and "không biết" not in result["response"].lower()
Meaningful(result) ==
    /\ result.response.prefix # "" \/ result.response.text # ""
    /\ ~ContainsSentinel(Lower(result.response.text))

\* meaningful_results[:3]
FallbackTop == 3

TopMeaningfulMutant(results) ==
    SelectSeq(SubSeq(results, 1, Min(FallbackTop, Len(results))), Meaningful)

\* the results the for loop of _fallback_aggregation numbers
TopMeaningful(results) ==
    LET meaningful_results == SelectSeq(results, Meaningful)
    IN  SubSeq(meaningful_results, 1, Min(FallbackTop, Len(meaningful_results)))

FallbackHeader == "Dua tren cac anh duoc phan tich:"

\* _fallback_aggregation: a fixed sentence, or the header line with the
\* number of meaningful results followed by the numbered lines.
FallbackAggregation(results) ==
    IF results = <<>> THEN FallbackNoResults
    ELSE IF SelectSeq(results, Meaningful) = <<>> THEN FallbackNoMeaning
    ELSE [prefix |-> FallbackHeader, text |-> "numbered answers",
          count |-> Len(SelectSeq(results, Meaningful)),
          lines |-> [i \in 1..Len(TopMeaningful(results)) |->
                        [n |-> i, response |-> TopMeaningful(results)[i].response,
                         image_id |-> TopMeaningful(results)[i].image_id]]]

\* One event per VLM result, authored by the result's agent.
VlmEvents(results) ==
    [k \in 1..Len(results) |-> [author |-> results[k].vlm_agent,
                                text |-> results[k].response]]

ErrorEventMutant(name, msg) == [author |-> name, text |-> Text(ApologyPrefix, "")]

\* The event of the except clause of _run_async_impl.
ErrorEvent(name, msg) == [author |-> name, text |-> Text(ApologyPrefix, msg)]

FinalEvent(name, text) == [author |-> name, text |-> text]

\* A run of one of the three CosmoFlowAgent classes, on a session that may
\* hold the final answer of an earlier turn.
FlowInit ==
    /\ variant \in Variants
    /\ flowPc = "start"
    /\ final_answer \in {Unset, Written(StaleAnswer)}
    /\ search_tasks = <<>>
    /\ search_runs = <<>>
    /\ all_images = Unset
    /\ vlm_results = <<>>
    /\ answer = Unset
    /\ flowYielded = <<>>
    /\ flowLog = <<>>
    /\ flowExc = NoExc
    /\ flowConsumed = 0
    /\ task_results \in (IF variant = "cosmo_backup_fix" THEN TaskResultsValues
                          ELSE {MissingPlan})
    /\ plan_output = MissingPlan
    /\ search_query = Absent
    /\ streamKind = "finite"

FlowIdleInit ==
    /\ variant = "none"
    /\ flowPc = "idle"
    /\ final_answer = Unset
    /\ search_tasks = <<>>
    /\ search_runs = <<>>
    /\ all_images = Unset
    /\ vlm_results = <<>>
    /\ answer = Unset
    /\ flowYielded = <<>>
    /\ flowLog = <<>>
    /\ flowExc = NoExc
    /\ flowConsumed = 0
    /\ task_results = MissingPlan
    /\ plan_output = MissingPlan
    /\ search_query = Absent
    /\ streamKind = "finite"

\* cosmo_workflow, step 1: the Coordinator's response loop and the parsing
\* of its text into search tasks.
FlowStep1Cosmo ==
    /\ variant = "cosmo_workflow"
    /\ flowPc = "start"
    /\ UNCHANGED nonFlow
    /\ flowLog' = Append(flowLog, "MainCoordinator")
    /\ \E stream \in AgentStreams(StreamsUpTo(MaxFlowStream)), reply \in FlowPlanTexts :
          LET r == ResponseLoop(stream, max_main_events, 0)
              res == Step1Tasks(r, reply)
          IN  /\ LoopReturns(r, stream)
              /\ flowConsumed' = r.event_count
              /\ plan_output' = MainResponse(r, reply)
              /\ IF res.err # ""
                 THEN /\ flowPc' = "except"
                      /\ flowExc' = Raised(res.err, flowLog')
                      /\ UNCHANGED search_tasks
                 ELSE /\ flowPc' = "step2"
                      /\ search_tasks' = res.tasks
                      /\ UNCHANGED flowExc
    /\ UNCHANGED <<variant, streamKind, task_results, search_query, final_answer, search_runs,
                   all_images, vlm_results, answer, flowYielded>>

NoTaskResultsMutant(tr) == tr.type = "missing"

\* "task_results" not in ctx.session.state or not ctx.session.state["task_results"]
NoTaskResults(tr) == tr.type \in {"missing", "empty"}

\* main_agent of src/agent/agent.py: output_key="user_query"
MainAgentOutputKey == "user_query"

\* What a run of the Coordinator produces as its final text: nothing, or a
\* valid plan of three tasks.
CoordinatorOutputs ==
    {MissingPlan, [type |-> "str", json |-> TRUE, list |-> TRUE, items |-> DefaultTasks]}

\* The value under `key` after an agent's run: the agent's final text when
\* `key` is its output key, and otherwise what the state held before.
StoredUnder(key, out, before) ==
    IF MainAgentOutputKey = key /\ out # MissingPlan THEN out ELSE before

\* cosmo_backup_fix, step 1: the Coordinator's events are re-yielded and its
\* final text is stored under its output key; then task_results is read from
\* session state and the queries are set.
FlowStep1Backup ==
    /\ variant = "cosmo_backup_fix"
    /\ flowPc = "start"
    /\ UNCHANGED nonFlow
    /\ flowLog' = Append(flowLog, "MainCoordinator")
    /\ \E stream \in DrainStreams({"other"}), out \in CoordinatorOutputs :
          /\ flowYielded' = flowYielded \o AgentEvents("MainCoordinator", stream.events)
          /\ flowConsumed' = Len(stream.events)
          /\ plan_output' = IF stream.fails THEN plan_output ELSE out
          /\ task_results' = IF stream.fails THEN task_results
                             ELSE StoredUnder("task_results", out, task_results)
          /\ LET tr == task_results'
                 err == IF stream.fails THEN "main agent failed"
                        ELSE IF NoTaskResults(tr) THEN ""
                        ELSE IF tr.type = "str" /\ ~tr.json THEN "JSONDecodeError"
                        ELSE IF ~tr.list THEN "TypeError"
                        ELSE IF \E k \in 1..Len(SearchTasksLimited(tr.items)) :
                                    tr.items[k].query = Absent
                             THEN "KeyError"
                             ELSE ""
             IN  IF err # ""
                 THEN /\ flowPc' = "except"
                      /\ flowExc' = Raised(err, flowLog')
                      /\ UNCHANGED search_tasks
                 ELSE IF NoTaskResults(tr)
                      THEN /\ flowPc' = "done"
                           /\ UNCHANGED <<search_tasks, flowExc>>
                      ELSE /\ flowPc' = "step2"
                           /\ search_tasks' = tr.items
                           /\ UNCHANGED flowExc
    /\ UNCHANGED <<variant, streamKind, search_query, final_answer, search_runs, all_images, vlm_results,
                   answer>>

\* workflow_fix: `await` of the async generator that
\* _step1_main_agent_analysis_sync returns raises TypeError.
FlowStep1Fix ==
    /\ variant = "workflow_fix"
    /\ flowPc = "start"
    /\ UNCHANGED nonFlow
    /\ flowPc' = "except"
    /\ flowExc' = Raised("TypeError", flowLog)
    /\ UNCHANGED <<variant, streamKind, plan_output, task_results, search_query, final_answer, search_tasks, search_runs, all_images,
                   vlm_results, answer, flowYielded, flowLog, flowConsumed>>

\* cosmo_workflow, step 2: one run_search_agent coroutine per task of the
\* limited list, agent i for task i, all handed to gather.
FlowStep2Start ==
    /\ variant = "cosmo_workflow"
    /\ flowPc = "step2"
    /\ UNCHANGED nonFlow
    /\ LET limited == SearchTasksLimited(search_tasks)
       IN  /\ search_runs' = [i \in 1..Len(limited) |->
                                 [done |-> FALSE, images |-> 0, st |-> "created",
                                  agent |-> search_agents[i], query |-> limited[i].query,
                                  wrote |-> Absent, found |-> Absent,
                                  failed |-> FALSE, response |-> NoResponse]]
           /\ flowLog' = flowLog \o [i \in 1..Len(limited) |-> search_agents[i]]
    /\ flowPc' = "search"
    /\ UNCHANGED <<variant, streamKind, plan_output, task_results, search_query, final_answer, search_tasks, all_images,
                   vlm_results, answer, flowYielded, flowExc, flowConsumed>>

\* run_search_agent for task i up to its first await: the coroutines start in
\* the order gather was given them, and each stores its query under the one
\* key "search_query".
FlowSearchBegin(i) ==
    /\ flowPc = "search"
    /\ UNCHANGED nonFlow
    /\ search_runs[i].st = "created"
    /\ \A j \in 1..(i - 1) : search_runs[j].st # "created"
    /\ search_query' = search_runs[i].query
    /\ search_runs' = [search_runs EXCEPT ![i].st = "running", ![i].wrote = "search_query"]
    /\ UNCHANGED <<variant, streamKind, plan_output, task_results, flowPc, final_answer, search_tasks, all_images,
                   vlm_results, answer, flowYielded, flowLog, flowExc, flowConsumed>>

\* run_search_agent for task i, the agent's run: it works with the query
\* that session state holds when it builds its request; the result is the
\* images of the first function response with images, none at the cap, at
\* the end of the stream or on an exception.
FlowSearch(i) ==
    /\ flowPc = "search"
    /\ UNCHANGED nonFlow
    /\ search_runs[i].st = "running"
    /\ \E stream \in AgentStreams(SearchStreams), found \in FoundCounts :
          LET r == SearchLoop(stream, found, max_events, 0)
          IN  /\ LoopReturns(r, stream)
              /\ search_runs' = [search_runs EXCEPT
                     ![i].done = TRUE, ![i].st = "done",
                     ![i].images = IF r.raised THEN 0 ELSE r.images,
                     ![i].found = search_query,
                     ![i].failed = stream.fails,
                     ![i].response = Delivered(stream, found, max_events)]
              /\ flowConsumed' = r.event_count
    /\ UNCHANGED <<variant, streamKind, plan_output, task_results, search_query, flowPc, final_answer, search_tasks,
                   all_images, vlm_results, answer, flowYielded, flowLog, flowExc>>

\* The gather of step 2 and the pooling of the results in agent order.
FlowSearchGather ==
    /\ flowPc = "search"
    /\ UNCHANGED nonFlow
    /\ \A i \in DOMAIN search_runs : search_runs[i].done
    /\ all_images' = Written(PoolImages(ExtendImages(search_runs, 1)))
    /\ flowPc' = "step3"
    /\ UNCHANGED <<variant, streamKind, plan_output, task_results, search_query, final_answer, search_tasks, search_runs, vlm_results, answer,
                   flowYielded, flowLog, flowExc, flowConsumed>>

\* cosmo_backup_fix, step 2: the ParallelAgent's events are re-yielded and
\* the images of every function response pooled.
FlowStep2Backup ==
    /\ variant = "cosmo_backup_fix"
    /\ flowPc = "step2"
    /\ UNCHANGED nonFlow
    /\ flowLog' = Append(flowLog, "ParallelSearchAgent")
    /\ \E stream \in DrainStreams({"other", "images"}), found \in FoundCounts :
          /\ flowYielded' = flowYielded \o AgentEvents("ParallelSearchAgent", stream.events)
          /\ flowConsumed' = Len(stream.events)
          /\ IF stream.fails
             THEN /\ flowPc' = "except"
                  /\ flowExc' = Raised("search failed", flowLog')
                  /\ UNCHANGED all_images
             ELSE /\ flowPc' = "step3"
                  /\ all_images' =
                        Written(ImageList(found * CountOf(stream.events, "images")))
                  /\ UNCHANGED flowExc
    /\ UNCHANGED <<variant, streamKind, plan_output, task_results, search_query, final_answer, search_tasks, search_runs, vlm_results, answer>>

\* Step 3 with no image: cosmo_workflow's step returns no results and the
\* run goes on to step 4; cosmo_backup_fix sets the fixed answer and goes to
\* the final event.
FlowStep3NoImages ==
    /\ flowPc = "step3"
    /\ UNCHANGED nonFlow
    /\ all_images.value = <<>>
    /\ IF variant = "cosmo_workflow"
       THEN /\ flowPc' = "step4"
            /\ UNCHANGED answer
       ELSE /\ flowPc' = "final"
            /\ answer' = Written(NoImagesAnswer)
    /\ UNCHANGED <<variant, streamKind, plan_output, task_results, search_query, final_answer, search_tasks, search_runs, all_images,
                   vlm_results, flowYielded, flowLog, flowExc, flowConsumed>>

\* Step 3 with images: the fan-out over self.vlm_agents begins.
FlowStep3FanOut ==
    /\ flowPc = "step3"
    /\ UNCHANGED nonVlmFlow
    /\ all_images.value # <<>>
    /\ flowPc' = "vlm"
    /\ vlmCaller' = variant
    /\ vlmPc' = "start"
    /\ vlm_agents' = VlmAgentNames
    /\ vlm_images' = all_images.value
    /\ UNCHANGED <<image_batches, vlm_tasks, batch_results, vlm_raised, vlm_requests, vlmConsumed,
                   all_results>>
    /\ UNCHANGED <<variant, streamKind, plan_output, task_results, search_query, final_answer, search_tasks, search_runs, all_images,
                   vlm_results, answer, flowYielded, flowLog, flowExc, flowConsumed>>

\* The end of step 3: the flattened results; cosmo_backup_fix yields one
\* event per result.
FlowStep3Done ==
    /\ flowPc = "vlm"
    /\ vlmPc = "done"
    /\ UNCHANGED nonFlow
    /\ vlm_results' = all_results
    /\ flowYielded' = IF variant = "cosmo_backup_fix"
                      THEN flowYielded \o VlmEvents(all_results)
                      ELSE flowYielded
    /\ flowPc' = "step4"
    /\ UNCHANGED <<variant, streamKind, plan_output, task_results, search_query, final_answer, search_tasks, search_runs, all_images, answer,
                   flowLog, flowExc, flowConsumed>>

\* cosmo_workflow, step 4: the Aggregator's response loop, or the fallback
\* aggregation when it raises.
FlowStep4Cosmo ==
    /\ variant = "cosmo_workflow"
    /\ flowPc = "step4"
    /\ UNCHANGED nonFlow
    /\ flowLog' = Append(flowLog, "AggregatorAgent")
    /\ \E stream \in AgentStreams(StreamsUpTo(MaxFlowStream)) :
          LET r == ResponseLoop(stream, max_aggregator_events, 0)
          IN  /\ LoopReturns(r, stream)
              /\ flowConsumed' = r.event_count
              /\ answer' = Written(IF r.raised THEN FallbackAggregation(vlm_results)
                                   ELSE Plain(r.text))
    /\ flowPc' = "final"
    /\ UNCHANGED <<variant, streamKind, plan_output, task_results, search_query, final_answer, search_tasks, search_runs, all_images,
                   vlm_results, flowYielded, flowExc>>

\* aggregator_agent of src/agent/agent.py is created without output_key, so
\* its run stores nothing in session state.
AggregatorOutputKey == Absent

\* ctx.session.state.get("final_answer", ...) after the Aggregator's run: what
\* the run stored under its output key, if that key is "final_answer", and
\* otherwise what the state held before.
FinalAnswerAfter(events) ==
    IF AggregatorOutputKey = "final_answer" /\ "text" \in Range(events)
    THEN Written(Plain("text"))
    ELSE final_answer

\* cosmo_backup_fix, step 4: the Aggregator's events are re-yielded and the
\* answer is read from session state.
FlowStep4Backup ==
    /\ variant = "cosmo_backup_fix"
    /\ flowPc = "step4"
    /\ UNCHANGED nonFlow
    /\ flowLog' = Append(flowLog, "AggregatorAgent")
    /\ \E stream \in DrainStreams({"other", "text"}) :
          /\ flowYielded' = flowYielded \o AgentEvents("AggregatorAgent", stream.events)
          /\ flowConsumed' = Len(stream.events)
          /\ IF stream.fails
             THEN /\ flowPc' = "except"
                  /\ flowExc' = Raised("aggregator failed", flowLog')
                  /\ UNCHANGED answer
             ELSE /\ flowPc' = "final"
                  /\ answer' = Written(IF FinalAnswerAfter(stream.events).set
                                       THEN FinalAnswerAfter(stream.events).value
                                       ELSE DefaultAnswer)
                  /\ UNCHANGED flowExc
    /\ UNCHANGED <<variant, streamKind, plan_output, task_results, search_query, final_answer, search_tasks, search_runs, all_images,
                   vlm_results>>

\* ctx.session.state["final_answer"] = final_answer; yield final_event
FlowFinal ==
    /\ flowPc = "final"
    /\ UNCHANGED nonFlow
    /\ final_answer' = Written(answer.value)
    /\ flowYielded' = Append(flowYielded, FinalEvent(FlowName, answer.value))
    /\ flowPc' = "done"
    /\ UNCHANGED <<variant, streamKind, plan_output, task_results, search_query, search_tasks, search_runs, all_images, vlm_results, answer,
                   flowLog, flowExc, flowConsumed>>

\* except Exception as e: yield error_event
FlowExcept ==
    /\ flowPc = "except"
    /\ UNCHANGED nonFlow
    /\ flowYielded' = Append(flowYielded, ErrorEvent(FlowName, flowExc.msg))
    /\ flowPc' = "done"
    /\ UNCHANGED <<variant, streamKind, plan_output, task_results, search_query, final_answer, search_tasks, search_runs, all_images,
                   vlm_results, answer, flowLog, flowExc, flowConsumed>>

FlowNext ==
    \/ FlowStep1Cosmo
    \/ FlowStep1Backup
    \/ FlowStep1Fix
    \/ FlowStep2Start
    \/ \E i \in DOMAIN search_runs : FlowSearchBegin(i)
    \/ \E i \in DOMAIN search_runs : FlowSearch(i)
    \/ FlowSearchGather
    \/ FlowStep2Backup
    \/ FlowStep3NoImages
    \/ FlowStep3FanOut
    \/ VlmStart
    \/ \E t \in DOMAIN vlm_tasks : VlmRequest(t)
    \/ VlmGather
    \/ FlowStep3Done
    \/ FlowStep4Cosmo
    \/ FlowStep4Backup
    \/ FlowFinal
    \/ FlowExcept

(***************************************************************************)
(* root_agent: the Coordinator, the selective orchestrator and the         *)
(* Aggregator run in sequence                                              *)
(***************************************************************************)
\* sub_agents of root_agent, in order
SeqStages == <<"MainCoordinator", SelfName, "Aggregator">>

\* What the Coordinator's run may leave under its output key
\* "sub_agent_plan": nothing, text that is not JSON, a plan for pool agents,
\* a plan that names no pool agent.
SeqPlans ==
    {MissingPlan, [type |-> "str", json |-> FALSE, list |-> FALSE, items |-> <<>>],
     [type |-> "str", json |-> TRUE, list |-> TRUE,
      items |-> <<[agent |-> "AgentX", query |-> "q2"]>>]}
    \cup {[type |-> "str", json |-> TRUE, list |-> TRUE, items |-> es] : es \in MergePlans}

\* The workflow as the runner starts it: the Coordinator is running, the
\* orchestrator has not begun.
SeqInit ==
    /\ seqPc = "coordinator"
    /\ seqLog = <<"MainCoordinator">>
    /\ seqDrained = 0
    /\ session_state = [k \in {"sub_agent_plan", OutputKey} |->
                           IF k = "sub_agent_plan" THEN MissingPlan ELSE Unset]
    /\ selPc = "idle"
    /\ selError = ""
    /\ agent_runs = <<>>
    /\ tasks = <<>>
    /\ pending_tasks = {}
    /\ done = {}
    /\ collected_outputs = <<>>
    /\ produced = <<>>
    /\ yielded = <<>>
    /\ outWrites = 0
    /\ eventLimit = MaxEvents

SeqIdleInit ==
    /\ seqPc = "idle"
    /\ seqLog = <<>>
    /\ seqDrained = 0

SelUnchanged ==
    UNCHANGED <<selPc, selError, agent_runs, tasks, pending_tasks, done,
                collected_outputs, produced, yielded, outWrites, eventLimit>>

\* async for event in sub_agent.run_async(ctx): yield event, for the
\* Coordinator and for the Aggregator.
SeqStageEvent ==
    /\ seqPc \in {"coordinator", "aggregator"}
    /\ seqDrained < eventLimit
    /\ seqDrained' = seqDrained + 1
    /\ UNCHANGED <<seqPc, seqLog, session_state>>
    /\ SelUnchanged
    /\ UNCHANGED nonSeqSel

\* The Coordinator's stream raises: the exception leaves the workflow.
SeqCoordinatorFails ==
    /\ seqPc = "coordinator"
    /\ seqPc' = "failed"
    /\ UNCHANGED <<seqLog, seqDrained, session_state>>
    /\ SelUnchanged
    /\ UNCHANGED nonSeqSel

SelectiveMayStartMutant == seqPc = "coordinator" /\ seqDrained >= 1

\* The for loop goes on to the orchestrator when the Coordinator's stream is
\* exhausted.
SelectiveMayStart == seqPc = "coordinator"

\* The Coordinator's stream ends, its output key holding what it wrote; the
\* orchestrator is started.
SeqCoordinatorDone ==
    /\ SelectiveMayStart
    /\ \E plan \in SeqPlans :
          session_state' = [session_state EXCEPT !["sub_agent_plan"] = plan]
    /\ seqPc' = "selective"
    /\ seqLog' = Append(seqLog, SelfName)
    /\ selPc' = "start"
    /\ UNCHANGED <<seqDrained, selError, agent_runs, tasks, pending_tasks, done,
                   collected_outputs, produced, yielded, outWrites, eventLimit>>
    /\ UNCHANGED nonSeqSel

AggregatorMayStartMutant == seqPc = "selective" /\ selPc \in {"done", "failed"}

\* The orchestrator's generator is exhausted.
AggregatorMayStart == seqPc = "selective" /\ selPc = "done"

\* The orchestrator's stream ends: the Aggregator is started.
SeqSelectiveDone ==
    /\ AggregatorMayStart
    /\ seqPc' = "aggregator"
    /\ seqLog' = Append(seqLog, "Aggregator")
    /\ seqDrained' = 0
    /\ UNCHANGED session_state
    /\ SelUnchanged
    /\ UNCHANGED nonSeqSel

\* The orchestrator raised: the exception leaves the for loop of the workflow.
SeqSelectiveFails ==
    /\ seqPc = "selective"
    /\ selPc = "failed"
    /\ seqPc' = "failed"
    /\ UNCHANGED <<seqLog, seqDrained, session_state>>
    /\ SelUnchanged
    /\ UNCHANGED nonSeqSel

\* The Aggregator's stream ends, and with it the workflow.
SeqAggregatorDone ==
    /\ seqPc = "aggregator"
    /\ seqPc' = "done"
    /\ UNCHANGED <<seqLog, seqDrained, session_state>>
    /\ SelUnchanged
    /\ UNCHANGED nonSeqSel

SeqNext ==
    \/ SeqStageEvent
    \/ SeqCoordinatorFails
    \/ SeqCoordinatorDone
    \/ RunStart
    \/ \E i \in DOMAIN tasks : TaskEvent(i)
    \/ \E i \in DOMAIN tasks : TaskStop(i)
    \/ MergeWait
    \/ \E i \in DOMAIN tasks : MergeHandle(i)
    \/ SeqSelectiveDone
    \/ SeqSelectiveFails
    \/ SeqAggregatorDone

(***************************************************************************)
(* Threads drawing keys concurrently from one ApiKeyManager                *)
(***************************************************************************)
Threads == 1..MaxThreads

ThreadAgentIds == {0, 1, 3}

ThreadIdle == [pc |-> "idle", op |-> "none", key |-> NoKey, read |-> 0]

ThIdleInit ==
    /\ threads = <<>>
    /\ lock = 0
    /\ draws_started = 0
    /\ draws_completed = 0

\* One manager with a non-empty pool, shared by threads that have not drawn yet.
ThInit ==
    /\ api_keys \in {p \in SeqsUpTo(KeyNames, MaxThreadKeys) : p # <<>>}
    /\ current_index = 0
    /\ usage_count = [k \in Range(api_keys) |-> 0]
    /\ kmLast = KmIdle
    /\ kmAssigned = [i \in AgentIds |-> NoKey]
    /\ kmCalls = 0
    /\ manager_class = "ApiKeyManager"
    /\ next_keys = <<>>
    /\ threads = [t \in Threads |-> ThreadIdle]
    /\ lock = 0
    /\ draws_started = 0
    /\ draws_completed = 0

ThKmUnchanged == UNCHANGED <<api_keys, kmLast, kmAssigned, kmCalls, manager_class, next_keys>>

\* get_next_key is called: the thread passes the emptiness test and reaches
\* "with self.lock".
ThCallNext(t) ==
    /\ threads[t].pc = "idle"
    /\ draws_started < MaxThreadDraws
    /\ draws_started' = draws_started + 1
    /\ threads' = [threads EXCEPT ![t] = [ThreadIdle EXCEPT !.pc = "acquire", !.op = "next"]]
    /\ UNCHANGED <<lock, draws_completed, current_index, usage_count>>
    /\ ThKmUnchanged
    /\ UNCHANGED nonTh

\* with self.lock: key = self.api_keys[self.current_index]
ThAcquire(t) ==
    /\ threads[t].pc = "acquire"
    /\ lock = 0
    /\ lock' = t
    /\ threads' = [threads EXCEPT ![t].pc = "load", ![t].key = api_keys[current_index + 1]]
    /\ UNCHANGED <<draws_started, draws_completed, current_index, usage_count>>
    /\ ThKmUnchanged
    /\ UNCHANGED nonTh

\* get_key_for_agent(agent_id) is called: key_index and key are computed,
\* no lock is taken.
ThCallForAgent(t, agent_id) ==
    /\ threads[t].pc = "idle"
    /\ draws_started < MaxThreadDraws
    /\ draws_started' = draws_started + 1
    /\ threads' = [threads EXCEPT ![t] =
                      [pc |-> "load", op |-> "agent",
                       key |-> api_keys[KeyIndex(agent_id, api_keys) + 1], read |-> 0]]
    /\ UNCHANGED <<lock, draws_completed, current_index, usage_count>>
    /\ ThKmUnchanged
    /\ UNCHANGED nonTh

\* self.usage_count[key] += 1, first half: the counter is loaded.
ThLoadCount(t) ==
    /\ threads[t].pc = "load"
    /\ threads' = [threads EXCEPT ![t].pc = "store", ![t].read = usage_count[threads[t].key]]
    /\ UNCHANGED <<lock, draws_started, draws_completed, current_index, usage_count>>
    /\ ThKmUnchanged
    /\ UNCHANGED nonTh

\* self.usage_count[key] += 1, second half: the loaded value plus one is
\* stored. get_key_for_agent returns here; get_next_key goes on to the cursor.
ThStoreCount(t) ==
    /\ threads[t].pc = "store"
    /\ usage_count' = [usage_count EXCEPT ![threads[t].key] = threads[t].read + 1]
    /\ IF threads[t].op = "next"
       THEN /\ threads' = [threads EXCEPT ![t].pc = "advance"]
            /\ UNCHANGED draws_completed
       ELSE /\ threads' = [threads EXCEPT ![t] = ThreadIdle]
            /\ draws_completed' = draws_completed + 1
    /\ UNCHANGED <<lock, draws_started, current_index>>
    /\ ThKmUnchanged
    /\ UNCHANGED nonTh

\* self.current_index = (self.current_index + 1) % len(self.api_keys); the
\* key is returned and the lock released.
ThAdvance(t) ==
    /\ threads[t].pc = "advance"
    /\ current_index' = (current_index + 1) % Len(api_keys)
    /\ lock' = 0
    /\ threads' = [threads EXCEPT ![t] = ThreadIdle]
    /\ draws_completed' = draws_completed + 1
    /\ UNCHANGED <<draws_started, usage_count>>
    /\ ThKmUnchanged
    /\ UNCHANGED nonTh

ThNext ==
    \/ \E t \in Threads : ThCallNext(t)
    \/ \E t \in Threads : ThAcquire(t)
    \/ \E t \in Threads, agent_id \in ThreadAgentIds : ThCallForAgent(t, agent_id)
    \/ \E t \in Threads : ThLoadCount(t)
    \/ \E t \in Threads : ThStoreCount(t)
    \/ \E t \in Threads : ThAdvance(t)

(***************************************************************************)
(* The agent factory of src/agent/agent.py and the active credential       *)
(***************************************************************************)
\* self.api_keys of src/agent/agent.py
AgentPyKeys == <<"key_1", "key_2", "key_3", "key_4">>

SearchIds == 1..3
VlmIds == 1..5

\* create_vlm_agent: agent_id=agent_id + 10
VlmAgentId(i) == i + 10

\* The agents the module builds, in the order it builds them.
AgentSpecs ==
    <<[agent_id |-> 0, role |-> "main"]>>
    \o [i \in SearchIds |-> [agent_id |-> i, role |-> "search"]]
    \o [i \in VlmIds |-> [agent_id |-> VlmAgentId(i), role |-> "vlm"]]
    \o <<[agent_id |-> 99, role |-> "aggregator"]>>

CredIdle == [op |-> "none", agent |-> 0, before |-> <<>>]

CredIdleInit ==
    /\ environ = NoKey
    /\ factory_agents = <<>>
    /\ invocations = 0
    /\ credLast = CredIdle

\* The module up to "Set default key": the manager is built and the first key
\* of the pool is the active credential.
CredInit ==
    /\ api_keys = AgentPyKeys
    /\ current_index = 0
    /\ usage_count = [k \in Range(api_keys) |-> 0]
    /\ kmLast = KmIdle
    /\ kmAssigned = [i \in AgentIds |-> NoKey]
    /\ kmCalls = 0
    /\ manager_class = "ApiKeyManager"
    /\ next_keys = <<>>
    /\ environ = api_keys[1]
    /\ factory_agents = <<>>
    /\ invocations = 0
    /\ credLast = CredIdle

\* create_agent_with_api_key_rotation: the key is drawn once, when the agent
\* is built, and kept in the closure of its callback.
CreateAgent ==
    /\ Len(factory_agents) < Len(AgentSpecs)
    /\ LET spec == AgentSpecs[Len(factory_agents) + 1]
           key == api_keys[KeyIndex(spec.agent_id, api_keys) + 1]
       IN  /\ usage_count' = [usage_count EXCEPT ![key] = @ + 1]
           /\ factory_agents' = Append(factory_agents, [agent_id |-> spec.agent_id, role |-> spec.role,
                                      assigned_key |-> key, pc |-> "idle", seen |-> NoKey])
           /\ credLast' = [op |-> "create", agent |-> Len(factory_agents) + 1, before |-> usage_count]
    /\ UNCHANGED <<api_keys, current_index, kmLast, kmAssigned, kmCalls, manager_class,
                   next_keys, environ, invocations>>
    /\ UNCHANGED nonCred

\* The agents a workflow runs at the same time: the search agents of one
\* gather, or the VLM agents of one gather; the Coordinator and the
\* Aggregator run alone.
MayRunWith(a) ==
    \A b \in DOMAIN factory_agents :
        factory_agents[b].pc # "idle" =>
            /\ factory_agents[b].role = factory_agents[a].role
            /\ factory_agents[a].role \in {"search", "vlm"}

ActiveAfterCallbackMutant(assigned_key) == IF environ = api_keys[1] THEN assigned_key ELSE environ

\* os.environ['GEMINI_API_KEY'] = assigned_key
ActiveAfterCallback(assigned_key) == assigned_key

\* before_callback of agent a: the key drawn at build time is installed; the
\* key manager is not called.
BeforeCallback(a) ==
    /\ Len(factory_agents) = Len(AgentSpecs)
    /\ factory_agents[a].pc = "idle"
    /\ MayRunWith(a)
    /\ invocations < MaxInvocations
    /\ invocations' = invocations + 1
    /\ environ' = ActiveAfterCallback(factory_agents[a].assigned_key)
    /\ factory_agents' = [factory_agents EXCEPT ![a].pc = "called_back", ![a].seen = NoKey]
    /\ credLast' = [op |-> "callback", agent |-> a, before |-> usage_count]
    /\ UNCHANGED kmVars
    /\ UNCHANGED nonCred

\* The agent's model call, an await after its callback: the client uses the
\* credential that is active now.
ModelCall(a) ==
    /\ factory_agents[a].pc = "called_back"
    /\ factory_agents' = [factory_agents EXCEPT ![a].pc = "model_call", ![a].seen = environ]
    /\ credLast' = [op |-> "model_call", agent |-> a, before |-> usage_count]
    /\ UNCHANGED <<environ, invocations>>
    /\ UNCHANGED kmVars
    /\ UNCHANGED nonCred

\* after_callback: the invocation is over.
AfterCallback(a) ==
    /\ factory_agents[a].pc = "model_call"
    /\ factory_agents' = [factory_agents EXCEPT ![a].pc = "idle"]
    /\ credLast' = [op |-> "completed", agent |-> a, before |-> usage_count]
    /\ UNCHANGED <<environ, invocations>>
    /\ UNCHANGED kmVars
    /\ UNCHANGED nonCred

CredNext ==
    \/ CreateAgent
    \/ \E a \in DOMAIN factory_agents : BeforeCallback(a)
    \/ \E a \in DOMAIN factory_agents : ModelCall(a)
    \/ \E a \in DOMAIN factory_agents : AfterCallback(a)

(***************************************************************************)
(* _fallback_aggregation on its own                                        *)
(***************************************************************************)
\* The responses a VLM result may carry: none, the sentinel, an answer, the
\* error text of a failed request.
FallbackResponses ==
    {Plain(""), Plain(SentinelResponse), Plain("answer"), Text(ErrorPrefix, ErrorMessage)}

\* Result lists of up to MaxResults records, the k-th about image k.
FallbackInputs ==
    {[k \in 1..Len(rs) |-> [image_id |-> <<"img", k>>, vlm_agent |-> "VLMAgent1",
                            response |-> rs[k]]] :
        rs \in SeqsUpTo(FallbackResponses, MaxResults)}

FbIdleInit ==
    /\ fb_pc = "idle"
    /\ fb_results = <<>>
    /\ fb_answer = Plain("")

FbInit ==
    /\ fb_pc = "call"
    /\ fb_results \in FallbackInputs
    /\ fb_answer = Plain("")

\* return self._fallback_aggregation(user_query, vlm_results)
FallbackCall ==
    /\ fb_pc = "call"
    /\ fb_answer' = FallbackAggregation(fb_results)
    /\ fb_pc' = "returned"
    /\ UNCHANGED fb_results
    /\ UNCHANGED nonFb

FbNext == FallbackCall

(***************************************************************************)
(* The step-driven text-RAG workflow with retry (CosmoWorkflow), whose     *)
(* caller is src/main.py                                                   *)
(***************************************************************************)
MaxRetryTasks == 2
MaxClock == 3

RtAgents == {"sub_agent_1", "sub_agent_2"}

\* Task lists the Coordinator may leave in session state; <<>> is "absent".
RtTaskLists == SeqsUpTo([agent : RtAgents, query : {"q"}], MaxRetryTasks)

\* EvaluationResult values: actions are {agent, new_query} pairs.
RtEvaluations ==
    [actions : SeqsUpTo([agent : RtAgents, new_query : {"q2"}], MaxRetryTasks),
     summary : {"summary"}, ok : {TRUE}]

\* No EvaluationResult, or one that does not parse.
RtNoEval == [actions |-> <<>>, summary |-> "", ok |-> FALSE]

RtIdleInit ==
    /\ rt_pc = "idle"
    /\ rt_tasks = <<>>
    /\ rt_eval = RtNoEval
    /\ rt_first_actions = <<>>
    /\ rt_invoked = <<>>
    /\ rt_coord = 0
    /\ rt_now = 0
    /\ rt_mark = 0
    /\ rt_timing = [start_time |-> 0]

\* The workflow is entered: the clock is read and the Coordinator runs once.
RtInit ==
    /\ rt_pc = "step1"
    /\ rt_tasks \in RtTaskLists
    /\ rt_eval = RtNoEval
    /\ rt_first_actions = <<>>
    /\ rt_invoked = <<>>
    /\ rt_coord = 1
    /\ rt_now = 0
    /\ rt_mark = 0
    /\ rt_timing = [start_time |-> 0]

\* Wall-clock time passes while a step runs.
RtTick ==
    /\ rt_pc \in {"step1", "step2", "step3", "step4", "step5"}
    /\ rt_now < MaxClock
    /\ rt_now' = rt_now + 1
    /\ UNCHANGED <<rt_pc, rt_tasks, rt_eval, rt_first_actions, rt_invoked, rt_coord,
                   rt_mark, rt_timing>>
    /\ UNCHANGED nonRt

\* The timing record with one more step duration in it.
RtTimed(key, duration) ==
    [k \in DOMAIN rt_timing \cup {key} |-> IF k = key THEN duration ELSE rt_timing[k]]

\* Step 1, Decompose: read the task list; abort when it is absent.
RtDecompose ==
    /\ rt_pc = "step1"
    /\ IF rt_tasks = <<>>
       THEN /\ rt_pc' = "aborted"
            /\ UNCHANGED <<rt_mark, rt_timing>>
       ELSE /\ rt_pc' = "step2"
            /\ rt_timing' = RtTimed("step1_duration", rt_now - rt_mark)
            /\ rt_mark' = rt_now
    /\ UNCHANGED <<rt_tasks, rt_eval, rt_first_actions, rt_invoked, rt_coord, rt_now>>
    /\ UNCHANGED nonRt

\* The invocations of one phase recorded so far.
RtPhase(phase) == SelectSeq(rt_invoked, LAMBDA r : r.phase = phase)

\* Step 2, Parallel retrieval: the specialists of the tasks are started one
\* by one in task order and run concurrently.
RtRetrieve ==
    /\ rt_pc = "step2"
    /\ Len(RtPhase("initial")) < Len(rt_tasks)
    /\ LET t == rt_tasks[Len(RtPhase("initial")) + 1]
       IN  rt_invoked' = Append(rt_invoked,
               [agent |-> t.agent, query |-> t.query, phase |-> "initial"])
    /\ UNCHANGED <<rt_pc, rt_tasks, rt_eval, rt_first_actions, rt_coord, rt_now,
                   rt_mark, rt_timing>>
    /\ UNCHANGED nonRt

\* Step 3, Evaluate: the Coordinator runs a second time; a missing or
\* malformed EvaluationResult aborts.
RtEvaluate ==
    /\ rt_pc = "step2"
    /\ Len(RtPhase("initial")) = Len(rt_tasks)
    /\ rt_coord' = rt_coord + 1
    /\ \E ev \in RtEvaluations \cup {RtNoEval} :
          /\ rt_eval' = ev
          /\ rt_first_actions' = ev.actions
          /\ rt_pc' = IF ev.ok THEN "step3" ELSE "aborted"
    /\ rt_timing' = RtTimed("step2_duration", rt_now - rt_mark)
    /\ rt_mark' = rt_now
    /\ UNCHANGED <<rt_tasks, rt_invoked, rt_now>>
    /\ UNCHANGED nonRt

RtEvaluated ==
    /\ rt_pc = "step3"
    /\ rt_pc' = "step4"
    /\ rt_timing' = RtTimed("step3_duration", rt_now - rt_mark)
    /\ rt_mark' = rt_now
    /\ UNCHANGED <<rt_tasks, rt_eval, rt_first_actions, rt_invoked, rt_coord, rt_now>>
    /\ UNCHANGED nonRt

\* if `actions` is empty, step 4 is skipped entirely
RetryIsSkippedMutant == FALSE
RetryIsSkipped == rt_eval.actions = <<>>

\* Step 4 skipped: recorded as a zero-duration step.
RtSkipRetry ==
    /\ rt_pc = "step4"
    /\ RetryIsSkipped
    /\ rt_timing' = RtTimed("step4_duration", 0)
    /\ rt_pc' = "step5"
    /\ UNCHANGED <<rt_tasks, rt_eval, rt_first_actions, rt_invoked, rt_coord, rt_now,
                   rt_mark>>
    /\ UNCHANGED nonRt

\* Step 4, Conditional retry: exactly the {agent, new_query} pairs run.
RtRetry ==
    /\ rt_pc = "step4"
    /\ ~RetryIsSkipped
    /\ Len(RtPhase("retry")) < Len(rt_first_actions)
    /\ LET a == rt_first_actions[Len(RtPhase("retry")) + 1]
       IN  rt_invoked' = Append(rt_invoked,
               [agent |-> a.agent, query |-> a.new_query, phase |-> "retry"])
    /\ UNCHANGED <<rt_pc, rt_tasks, rt_eval, rt_first_actions, rt_coord, rt_now,
                   rt_mark, rt_timing>>
    /\ UNCHANGED nonRt

\* ... then the Coordinator is re-invoked once for a final evaluation, which
\* overwrites the evaluation result of the state.
RtFinalEvaluate ==
    /\ rt_pc = "step4"
    /\ ~RetryIsSkipped
    /\ Len(RtPhase("retry")) = Len(rt_first_actions)
    /\ rt_coord' = rt_coord + 1
    /\ \E ev \in RtEvaluations : rt_eval' = ev
    /\ rt_timing' = RtTimed("step4_duration", rt_now - rt_mark)
    /\ rt_pc' = "step5"
    /\ UNCHANGED <<rt_tasks, rt_first_actions, rt_invoked, rt_now, rt_mark>>
    /\ UNCHANGED nonRt

\* Step 5, Summarize: the final event; end_time and total_time are recorded.
RtSummarize ==
    /\ rt_pc = "step5"
    /\ rt_pc' = "done"
    /\ rt_timing' = [k \in DOMAIN rt_timing \cup {"end_time", "total_time"} |->
                        IF k \in {"end_time", "total_time"} THEN rt_now ELSE rt_timing[k]]
    /\ UNCHANGED <<rt_tasks, rt_eval, rt_first_actions, rt_invoked, rt_coord, rt_now,
                   rt_mark>>
    /\ UNCHANGED nonRt

\* main(): the timing breakdown prints step 4 as "Skipped" unless its
\* duration is positive.
PrintsStep4Skipped ==
    /\ "step4_duration" \in DOMAIN rt_timing
    /\ ~(rt_timing["step4_duration"] > 0)

RtNext ==
    \/ RtTick
    \/ RtDecompose
    \/ RtRetrieve
    \/ RtEvaluate
    \/ RtEvaluated
    \/ RtSkipRetry
    \/ RtRetry
    \/ RtFinalEvaluate
    \/ RtSummarize

(***************************************************************************)
(* run_cosmo_workflow and setup_session_and_runner (src/main.py)           *)
(***************************************************************************)
MaxDriverEvents == 3

DrvQueries == {"query a", "query b"}

NoResult == [status |-> "none"]

\* INITIAL_STATE
INITIAL_STATE == [user_query |-> "", workflow_status |-> "initialized"]

NoFinalResponse == "No final response captured."

DrvIdleInit ==
    /\ drv_pc = "idle"
    /\ drv_query = ""
    /\ drv_session = FALSE
    /\ drv_state = INITIAL_STATE
    /\ drv_final_response = NoFinalResponse
    /\ drv_event_count = 0
    /\ drv_result = NoResult
    /\ drv_exc = "none"

\* run_cosmo_workflow(user_query) is called.
DrvInit ==
    /\ drv_pc = "setup"
    /\ drv_query \in DrvQueries
    /\ drv_session = FALSE
    /\ drv_state = INITIAL_STATE
    /\ drv_final_response = NoFinalResponse
    /\ drv_event_count = 0
    /\ drv_result = NoResult
    /\ drv_exc = "none"

\* session_service, runner = await setup_session_and_runner(): the session
\* is created and the Runner built, or one of the two raises; the call is
\* not inside a try.
DrvSetup ==
    /\ drv_pc = "setup"
    /\ \E outcome \in {"ok", "create_session failed", "Runner failed"} :
          IF outcome = "ok"
          THEN /\ drv_session' = TRUE
               /\ drv_pc' = "get_session"
               /\ UNCHANGED drv_exc
          ELSE /\ drv_session' = (outcome = "Runner failed")
               /\ drv_pc' = "raised"
               /\ drv_exc' = outcome
    /\ UNCHANGED <<drv_query, drv_state, drv_final_response, drv_event_count, drv_result>>
    /\ UNCHANGED nonDrv

\* current_session = await session_service.get_session(...); a missing
\* session returns {"error": "Session not found"}; otherwise the query is
\* stored and the workflow started.
DrvGetSession ==
    /\ drv_pc = "get_session"
    /\ \E found \in {drv_session, FALSE} :
          IF ~found
          THEN /\ drv_result' = [error |-> "Session not found"]
               /\ drv_pc' = "returned"
               /\ UNCHANGED drv_state
          ELSE /\ drv_state' = [drv_state EXCEPT !.user_query = drv_query,
                                                 !.workflow_status = "running"]
               /\ drv_pc' = "stream"
               /\ UNCHANGED drv_result
    /\ UNCHANGED <<drv_query, drv_session, drv_final_response, drv_event_count, drv_exc>>
    /\ UNCHANGED nonDrv

\* One pass of `async for event in events`: a final response with text
\* replaces final_response.
DrvEvent ==
    /\ drv_pc = "stream"
    /\ drv_event_count < MaxDriverEvents
    /\ drv_event_count' = drv_event_count + 1
    /\ \E event \in {"partial", "final without text", "final answer", "final apology"} :
          drv_final_response' = IF event \in {"final answer", "final apology"} THEN event
                                ELSE drv_final_response
    /\ UNCHANGED <<drv_pc, drv_query, drv_session, drv_state, drv_result, drv_exc>>
    /\ UNCHANGED nonDrv

\* except Exception as e: return {"error": f"Workflow execution failed: ..."}
DrvStreamRaises ==
    /\ drv_pc = "stream"
    /\ drv_result' = [error |-> "Workflow execution failed: stream raised"]
    /\ drv_pc' = "returned"
    /\ UNCHANGED <<drv_query, drv_session, drv_state, drv_final_response, drv_event_count,
                   drv_exc>>
    /\ UNCHANGED nonDrv

\* The stream ends.
DrvStreamEnds ==
    /\ drv_pc = "stream"
    /\ drv_pc' = "finish"
    /\ UNCHANGED <<drv_query, drv_session, drv_state, drv_final_response, drv_event_count,
                   drv_result, drv_exc>>
    /\ UNCHANGED nonDrv

\* final_session = await session_service.get_session(...), outside the try:
\* it raises, or the result dict is built from the session found, if any.
DrvFinish ==
    /\ drv_pc = "finish"
    /\ \E outcome \in {"found", "missing", "get_session failed"} :
          IF outcome = "get_session failed"
          THEN /\ drv_pc' = "raised"
               /\ drv_exc' = outcome
               /\ UNCHANGED <<drv_state, drv_result>>
          ELSE /\ drv_pc' = "returned"
               /\ drv_state' = IF outcome = "found"
                                THEN [drv_state EXCEPT !.workflow_status = "completed"]
                                ELSE drv_state
               /\ drv_result' = [query |-> drv_query,
                                 final_response |-> drv_final_response,
                                 events_processed |-> drv_event_count,
                                 session_state |-> IF outcome = "found" THEN drv_state'
                                                   ELSE [user_query |-> "",
                                                         workflow_status |-> "none"],
                                 status |-> "success"]
               /\ UNCHANGED drv_exc
    /\ UNCHANGED <<drv_query, drv_session, drv_final_response, drv_event_count>>
    /\ UNCHANGED nonDrv

DrvNext ==
    \/ DrvSetup
    \/ DrvGetSession
    \/ DrvEvent
    \/ DrvStreamRaises
    \/ DrvStreamEnds
    \/ DrvFinish

(***************************************************************************)
(* extract_user_input (src/utils/helper_workflow.py) and                   *)
(* CosmoFlowAgent._extract_user_input                                      *)
(***************************************************************************)
MaxParts == 2

\* Python's None where a string may stand.
NoneText == "<None>"

\* The parts of a content: text parts, and parts without text (an image).
InParts == [text : {"hello", "other", "", NoneText}]

\* ctx.request: no such attribute, None, a request without content, or a
\* request whose content has up to MaxParts parts.
InRequests ==
    {[kind |-> k, parts |-> <<>>] : k \in {"no attribute", "None", "no content"}}
        \cup {[kind |-> "content", parts |-> ps] : ps \in SeqsUpTo(InParts, MaxParts)}

\* ctx.session.state["user_query"], or no such key
InStates == {Absent, "", "stored query"}

InContexts == [request : InRequests, user_query : InStates]

InIdleInit ==
    /\ in_pc = "idle"
    /\ in_ctx = [request |-> [kind |-> "no attribute", parts |-> <<>>], user_query |-> Absent]
    /\ in_result = NoneText

InInit ==
    /\ in_pc = "call"
    /\ in_ctx \in InContexts
    /\ in_result = NoneText

\* if hasattr(ctx, "request") and ctx.request and ctx.request.content:
\*     if ctx.request.content.parts:
\*         return ctx.request.content.parts[0].text
\* return ctx.session.state.get("user_query", "")
extract_user_input(ctx) ==
    IF ctx.request.kind = "content" /\ ctx.request.parts # <<>>
    THEN ctx.request.parts[1].text
    ELSE IF ctx.user_query = Absent THEN "" ELSE ctx.user_query

ExtractCall ==
    /\ in_pc = "call"
    /\ in_result' = extract_user_input(in_ctx)
    /\ in_pc' = "returned"
    /\ UNCHANGED in_ctx
    /\ UNCHANGED nonIn

InNext == ExtractCall

(***************************************************************************)
(* The shared sub-agent call counter and the before_agent_callback of the  *)
(* specialists                                                             *)
(***************************************************************************)
MaxCounterRuns == 2

\* {'total_calls': 0, 'agent_calls': {f'Agent{i}': 0 for i in range(1, 11)}},
\* over the specialists of the pool
ZeroedCounter == [total_calls |-> 0, agent_calls |-> [a \in Range(sub_agents) |-> 0]]

CntIdleInit ==
    /\ sub_agent_call_counter = ZeroedCounter
    /\ cntPc = "idle"
    /\ cntPlan = MissingPlan
    /\ cntRuns = <<>>
    /\ cntCalled = {}
    /\ cntFresh = FALSE
    /\ cntRounds = 0

\* The module has been imported: the counter is the dict of its definition.
CntInit ==
    /\ sub_agent_call_counter = ZeroedCounter
    /\ cntPc = "ready"
    /\ cntPlan = MissingPlan
    /\ cntRuns = <<>>
    /\ cntCalled = {}
    /\ cntFresh = FALSE
    /\ cntRounds = 0

CountCallTotalOnlyMutant(counter, agent_name) ==
    [counter EXCEPT !.total_calls = @ + 1]

\* before_callback of the specialist agent_name:
\*   sub_agent_call_counter['total_calls'] += 1
\*   sub_agent_call_counter['agent_calls'][f'Agent{agent_id}'] += 1
CountCall(counter, agent_name) ==
    [counter EXCEPT !.total_calls = @ + 1, !.agent_calls[agent_name] = @ + 1]

\* reset_sub_agent_counter(): the global is bound to a new zeroed dict.
CntReset ==
    /\ cntPc \in {"ready", "finished"}
    /\ UNCHANGED nonCnt
    /\ sub_agent_call_counter' = ZeroedCounter
    /\ cntPc' = "ready"
    /\ UNCHANGED <<cntPlan, cntRuns, cntCalled, cntFresh, cntRounds>>

\* A run of the selective orchestrator on a plan: it raises before any
\* sub-agent is started, or it creates one run per task for the merge.
CntRunStart ==
    /\ cntPc \in {"ready", "finished"}
    /\ UNCHANGED nonCnt
    /\ cntRounds < MaxCounterRuns
    /\ cntRounds' = cntRounds + 1
    /\ \E plan \in PlanValues :
          LET prep == Prepare(plan)
          IN  /\ cntPlan' = plan
              /\ cntCalled' = {}
              /\ cntFresh' = (sub_agent_call_counter = ZeroedCounter)
              /\ IF prep.err # ""
                 THEN cntRuns' = <<>> /\ cntPc' = "ready"
                 ELSE /\ cntRuns' = [i \in 1..Len(prep.runs) |-> prep.runs[i].agent]
                      /\ cntPc' = "running"
    /\ UNCHANGED sub_agent_call_counter

\* The run of sub-agent run i begins: the agent's before_agent_callback is
\* called once, before the agent produces anything.
CntBeforeAgent(i) ==
    /\ cntPc = "running"
    /\ UNCHANGED nonCnt
    /\ i \in DOMAIN cntRuns
    /\ i \notin cntCalled
    /\ sub_agent_call_counter' = CountCall(sub_agent_call_counter, cntRuns[i])
    /\ cntCalled' = cntCalled \cup {i}
    /\ UNCHANGED <<cntPc, cntPlan, cntRuns, cntFresh, cntRounds>>

\* The merge is exhausted: every sub-agent run was started and has ended.
CntRunEnd ==
    /\ cntPc = "running"
    /\ UNCHANGED nonCnt
    /\ cntCalled = DOMAIN cntRuns
    /\ cntPc' = "finished"
    /\ UNCHANGED <<sub_agent_call_counter, cntPlan, cntRuns, cntCalled, cntFresh, cntRounds>>

CntNext ==
    \/ CntReset
    \/ CntRunStart
    \/ \E i \in DOMAIN cntRuns : CntBeforeAgent(i)
    \/ CntRunEnd

(***************************************************************************)
(* batch_process_queries (src/main.py)                                     *)
(***************************************************************************)
MaxBatch == 2

BatIdleInit ==
    /\ bat_pc = "idle"
    /\ bat_queries = <<>>
    /\ bat_results = <<>>
    /\ bat_log = <<>>

\* batch_process_queries(queries) is called: results = []
BatInit ==
    /\ bat_pc = "loop"
    /\ bat_queries \in SeqsUpTo(DrvQueries, MaxBatch)
    /\ bat_results = <<>>
    /\ bat_log = <<>>

\* for i, query in enumerate(queries, 1): run_cosmo_workflow(query) is called
BatTurnStart ==
    /\ bat_pc = "loop"
    /\ Len(bat_results) < Len(bat_queries)
    /\ bat_pc' = "turn"
    /\ bat_log' = Append(bat_log, <<"start", Len(bat_results) + 1>>)
    /\ drv_pc' = "setup"
    /\ drv_query' = bat_queries[Len(bat_results) + 1]
    /\ drv_session' = FALSE
    /\ drv_state' = INITIAL_STATE
    /\ drv_final_response' = NoFinalResponse
    /\ drv_event_count' = 0
    /\ drv_result' = NoResult
    /\ drv_exc' = "none"
    /\ UNCHANGED <<bat_queries, bat_results>>
    /\ UNCHANGED nonDrvBat

\* results.append(result)
AppendResult(results, result) == Append(results, result)

\* result = await run_cosmo_workflow(query) returns: results.append(result),
\* then await asyncio.sleep(1)
BatTurnReturned ==
    /\ bat_pc = "turn"
    /\ drv_pc = "returned"
    /\ bat_results' = AppendResult(bat_results, drv_result)
    /\ bat_log' = Append(bat_log, <<"end", Len(bat_results) + 1>>)
    /\ bat_pc' = "loop"
    /\ UNCHANGED bat_queries
    /\ UNCHANGED drvVars
    /\ UNCHANGED nonDrvBat

\* run_cosmo_workflow raises: nothing in batch_process_queries catches it.
BatTurnRaised ==
    /\ bat_pc = "turn"
    /\ drv_pc = "raised"
    /\ bat_pc' = "raised"
    /\ UNCHANGED <<bat_queries, bat_results, bat_log>>
    /\ UNCHANGED drvVars
    /\ UNCHANGED nonDrvBat

\* return results
BatReturn ==
    /\ bat_pc = "loop"
    /\ Len(bat_results) = Len(bat_queries)
    /\ bat_pc' = "returned"
    /\ UNCHANGED <<bat_queries, bat_results, bat_log>>
    /\ UNCHANGED drvVars
    /\ UNCHANGED nonDrvBat

BatNext ==
    \/ BatTurnStart
    \/ DrvSetup
    \/ DrvGetSession
    \/ DrvEvent
    \/ DrvStreamRaises
    \/ DrvStreamEnds
    \/ DrvFinish
    \/ BatTurnReturned
    \/ BatTurnRaised
    \/ BatReturn

(***************************************************************************)
(* Specifications                                                          *)
(***************************************************************************)
InitSel == SelInit /\ KmIdleInit /\ VlmIdleInit /\ FlowIdleInit /\ SeqIdleInit /\ ThIdleInit /\ CredIdleInit /\ FbIdleInit /\ RtIdleInit /\ DrvIdleInit /\ InIdleInit /\ CntIdleInit /\ BatIdleInit
Spec == InitSel /\ [][SelNext]_vars

InitMerge == MergeInit /\ KmIdleInit /\ VlmIdleInit /\ FlowIdleInit /\ SeqIdleInit /\ ThIdleInit /\ CredIdleInit /\ FbIdleInit /\ RtIdleInit /\ DrvIdleInit /\ InIdleInit /\ CntIdleInit /\ BatIdleInit
SpecMerge == InitMerge /\ [][SelNext]_vars

InitKeys == KmInit /\ SelIdleInit /\ VlmIdleInit /\ FlowIdleInit /\ SeqIdleInit /\ ThIdleInit /\ CredIdleInit /\ FbIdleInit /\ RtIdleInit /\ DrvIdleInit /\ InIdleInit /\ CntIdleInit /\ BatIdleInit
SpecKeys == InitKeys /\ [][KmNext]_vars

InitFlow == FlowInit /\ KmIdleInit /\ SelIdleInit /\ VlmIdleInit /\ SeqIdleInit /\ ThIdleInit /\ CredIdleInit /\ FbIdleInit /\ RtIdleInit /\ DrvIdleInit /\ InIdleInit /\ CntIdleInit /\ BatIdleInit
SpecFlow == InitFlow /\ [][FlowNext]_vars

InitSeq == SeqInit /\ KmIdleInit /\ VlmIdleInit /\ FlowIdleInit /\ ThIdleInit /\ CredIdleInit /\ FbIdleInit /\ RtIdleInit /\ DrvIdleInit /\ InIdleInit /\ CntIdleInit /\ BatIdleInit
SpecSeq == InitSeq /\ [][SeqNext]_vars

InitThreads == ThInit /\ SelIdleInit /\ VlmIdleInit /\ FlowIdleInit /\ SeqIdleInit /\ CredIdleInit /\ FbIdleInit /\ RtIdleInit /\ DrvIdleInit /\ InIdleInit /\ CntIdleInit /\ BatIdleInit
SpecThreads == InitThreads /\ [][ThNext]_vars

InitCred == CredInit /\ SelIdleInit /\ VlmIdleInit /\ FlowIdleInit /\ SeqIdleInit /\ ThIdleInit /\ FbIdleInit /\ RtIdleInit /\ DrvIdleInit /\ InIdleInit /\ CntIdleInit /\ BatIdleInit
SpecCred == InitCred /\ [][CredNext]_vars

InitMergeLive == MergeLiveInit /\ KmIdleInit /\ VlmIdleInit /\ FlowIdleInit /\ SeqIdleInit /\ ThIdleInit /\ CredIdleInit /\ FbIdleInit /\ RtIdleInit /\ DrvIdleInit /\ InIdleInit /\ CntIdleInit /\ BatIdleInit

\* The event loop runs the merge whenever it can continue and the merge's
\* caller keeps asking for the next event; nothing is assumed of the
\* producers, which may stall for ever.
MergeFairness ==
    /\ WF_vars(RunStart)
    /\ WF_vars(MergeWait)
    /\ \A i \in 1..2 : WF_vars(MergeHandle(i))

SpecMergeLive == InitMergeLive /\ [][SelNext]_vars /\ MergeFairness

InitFallback == FbInit /\ KmIdleInit /\ SelIdleInit /\ VlmIdleInit /\ FlowIdleInit /\ SeqIdleInit /\ ThIdleInit /\ CredIdleInit /\ RtIdleInit /\ DrvIdleInit /\ InIdleInit /\ CntIdleInit /\ BatIdleInit
SpecFallback == InitFallback /\ [][FbNext]_vars

InitRetry == RtInit /\ KmIdleInit /\ SelIdleInit /\ VlmIdleInit /\ FlowIdleInit /\ SeqIdleInit /\ ThIdleInit /\ CredIdleInit /\ FbIdleInit /\ DrvIdleInit /\ InIdleInit /\ CntIdleInit /\ BatIdleInit
SpecRetry == InitRetry /\ [][RtNext]_vars

InitDriver == DrvInit /\ KmIdleInit /\ SelIdleInit /\ VlmIdleInit /\ FlowIdleInit /\ SeqIdleInit /\ ThIdleInit /\ CredIdleInit /\ FbIdleInit /\ RtIdleInit /\ InIdleInit /\ CntIdleInit /\ BatIdleInit
SpecDriver == InitDriver /\ [][DrvNext]_vars

InitInput == InInit /\ KmIdleInit /\ SelIdleInit /\ VlmIdleInit /\ FlowIdleInit /\ SeqIdleInit /\ ThIdleInit /\ CredIdleInit /\ FbIdleInit /\ RtIdleInit /\ DrvIdleInit /\ CntIdleInit /\ BatIdleInit
SpecInput == InitInput /\ [][InNext]_vars

InitMergeFail == MergeLiveInit /\ KmIdleInit /\ VlmIdleInit /\ FlowIdleInit /\ SeqIdleInit /\ ThIdleInit /\ CredIdleInit /\ FbIdleInit /\ RtIdleInit /\ DrvIdleInit /\ InIdleInit /\ CntIdleInit /\ BatIdleInit
SpecMergeFail == InitMergeFail /\ [][SelFailNext]_vars

InitBatch == BatInit /\ KmIdleInit /\ SelIdleInit /\ VlmIdleInit /\ FlowIdleInit /\ SeqIdleInit /\ ThIdleInit /\ CredIdleInit /\ FbIdleInit /\ RtIdleInit /\ DrvIdleInit /\ InIdleInit /\ CntIdleInit
SpecBatch == InitBatch /\ [][BatNext]_vars

InitCounter == CntInit /\ KmIdleInit /\ SelIdleInit /\ VlmIdleInit /\ FlowIdleInit /\ SeqIdleInit /\ ThIdleInit /\ CredIdleInit /\ FbIdleInit /\ RtIdleInit /\ DrvIdleInit /\ InIdleInit /\ BatIdleInit
SpecCounter == InitCounter /\ [][CntNext]_vars

\* A run of cosmo_workflow whose agents' streams never end.
CapsInit ==
    /\ variant = "cosmo_workflow"
    /\ flowPc = "start"
    /\ final_answer \in {Unset, Written(StaleAnswer)}
    /\ search_tasks = <<>>
    /\ search_runs = <<>>
    /\ all_images = Unset
    /\ vlm_results = <<>>
    /\ answer = Unset
    /\ flowYielded = <<>>
    /\ flowLog = <<>>
    /\ flowExc = NoExc
    /\ flowConsumed = 0
    /\ task_results = MissingPlan
    /\ plan_output = MissingPlan
    /\ search_query = Absent
    /\ streamKind \in {"endless", "silent"}

CapsNext ==
    \/ FlowStep1Cosmo
    \/ FlowStep2Start
    \/ \E i \in DOMAIN search_runs : FlowSearchBegin(i)
    \/ \E i \in DOMAIN search_runs : FlowSearch(i)
    \/ FlowSearchGather
    \/ FlowStep3NoImages
    \/ FlowStep3FanOut
    \/ VlmStart
    \/ \E t \in DOMAIN vlm_tasks : VlmRequest(t)
    \/ VlmGather
    \/ FlowStep3Done
    \/ FlowStep4Cosmo
    \/ FlowFinal
    \/ FlowExcept

\* The event loop runs the workflow's coroutine whenever it can continue:
\* every loop over a stream that still produces events gets its next event.
CapsFairness == WF_vars(CapsNext)

InitCaps == CapsInit /\ KmIdleInit /\ SelIdleInit /\ VlmIdleInit /\ SeqIdleInit /\ ThIdleInit /\ CredIdleInit /\ FbIdleInit /\ RtIdleInit /\ DrvIdleInit /\ InIdleInit /\ CntIdleInit /\ BatIdleInit
SpecCaps == InitCaps /\ [][CapsNext]_vars /\ CapsFairness

InitVlm == VlmInit /\ KmIdleInit /\ SelIdleInit /\ FlowIdleInit /\ SeqIdleInit /\ ThIdleInit /\ CredIdleInit /\ FbIdleInit /\ RtIdleInit /\ DrvIdleInit /\ InIdleInit /\ CntIdleInit /\ BatIdleInit
SpecVlm == InitVlm /\ [][VlmNext]_vars

(***************************************************************************)
(* Properties                                                              *)
(***************************************************************************)
\* C4: with K >= 1 keys, get_key_for_agent(i) returns the key at index
\* i mod K, adds exactly 1 to that key's counter, leaves every other counter,
\* the pool and the cursor as they were, and returns the key that every
\* earlier draw for the same identity returned.
C4_KeyForAgentFixed ==
    kmLast.op = "agent" =>
        LET K == Len(api_keys)
            b == kmLast.before
            i == kmLast.agent_id
        IN  /\ K >= 1
            /\ \E idx \in 0..(K - 1) :
                  /\ (i - idx) % K = 0
                  /\ kmLast.key = api_keys[idx + 1]
            /\ usage_count[kmLast.key] = b.usage_count[kmLast.key] + 1
            /\ \A k \in DOMAIN usage_count \ {kmLast.key} :
                  usage_count[k] = b.usage_count[k]
            /\ DOMAIN usage_count = DOMAIN b.usage_count
            /\ api_keys = b.api_keys
            /\ current_index = b.current_index
            /\ kmAssigned[i] = kmLast.key

\* A second draw for one identity, made after a round-robin draw and with the
\* counters already above zero, on a pool of at least two distinct keys.
C4_Witness ==
    /\ kmLast.op = "agent"
    /\ Cardinality(Range(api_keys)) >= 2
    /\ kmLast.before.current_index > 0
    /\ kmLast.before.usage_count[kmLast.key] >= 1
    /\ kmCalls = 3

\* ---- the selective orchestrator ----
Plan == session_state["sub_agent_plan"]

\* The plan is a task plan: a list (stored as such or as JSON text) whose
\* entries all carry an agent and a query.
IsTaskPlan ==
    /\ Plan.list
    /\ \A k \in 1..Len(Plan.items) : HasBoth(Plan.items[k])

InPoolEntries == SelectSeq(Plan.items, LAMBDA t : t.agent \in Range(sub_agents))

\* C1: for a task plan, one run of the orchestrator starts exactly one
\* sub-agent run per plan entry whose agent is in the pool, in plan order, with
\* that entry's query as input (an agent named k times is started k times);
\* entries naming an agent outside the pool are skipped and do not fail a
\* batch that has an entry in the pool; nothing else is started.
C1_ExactlyThePlannedRuns ==
    (selPc \notin {"idle", "start"} /\ IsTaskPlan) =>
        /\ Len(agent_runs) = Len(InPoolEntries)
        /\ \A k \in 1..Len(agent_runs) :
              /\ agent_runs[k].agent = InPoolEntries[k].agent
              /\ agent_runs[k].input = InPoolEntries[k].query
        /\ DOMAIN tasks = DOMAIN agent_runs
        /\ (InPoolEntries # <<>> => selPc # "failed")
        /\ \A i \in DOMAIN produced :
              \A k \in 1..Len(produced[i]) : produced[i][k].author = agent_runs[i].agent

\* A finished run on a plan that names Agent1 twice, with two queries.
C1_Witness ==
    /\ selPc = "done"
    /\ IsTaskPlan
    /\ Len(agent_runs) = 2
    /\ agent_runs[1].agent = "Agent1" /\ agent_runs[2].agent = "Agent1"
    /\ agent_runs[1].input = "q1" /\ agent_runs[2].input = "q2"
    /\ Len(yielded) = 2

\* The run of producer i as the merge's caller saw it.
YieldedBy(i) == SelectSeq(yielded, LAMBDA e : e.run = i)

\* C2: the merge yields each producer's events in the producer's order, each
\* once and none that no producer produced; a producer whose task ended in
\* StopAsyncIteration is dropped from the pool; and the merge ends only when
\* every producer is exhausted, having yielded every event of every producer.
C2_MergeYieldsAllInOrder ==
    /\ \A k \in 1..Len(yielded) : yielded[k].run \in DOMAIN tasks
    /\ \A i \in DOMAIN tasks :
          /\ Len(YieldedBy(i)) <= Len(produced[i])
          /\ YieldedBy(i) = SubSeq(produced[i], 1, Len(YieldedBy(i)))
          /\ (tasks[i].st = "gone" => i \notin pending_tasks /\ YieldedBy(i) = produced[i])
          /\ (selPc = "done" => tasks[i].st = "gone" /\ YieldedBy(i) = produced[i])

\* Two producers, the first exhausted after one event while the second goes
\* on: the events come out interleaved.
C2_Witness ==
    /\ selPc = "done"
    /\ Len(agent_runs) = 2
    /\ Len(produced[1]) = 1 /\ Len(produced[2]) = 2
    /\ yielded = <<produced[2][1], produced[1][1], produced[2][2]>>

\* The plan names no configured sub-agent in an entry that carries both fields.
NoEntryForThePool ==
    \A k \in 1..Len(Plan.items) :
        ~(HasBoth(Plan.items[k]) /\ Plan.items[k].agent \in Range(sub_agents))

\* The cases of C9: the plan is missing, is text that is not JSON, or is a
\* list with no entry for the pool (no entry with both fields, the empty list,
\* or only entries naming agents outside the pool).
PlanMustFail ==
    \/ Plan.type = "missing"
    \/ Plan.type = "str" /\ ~Plan.json
    \/ Plan.list /\ NoEntryForThePool

\* C9: in those cases the orchestrator raises before it starts any sub-agent
\* and without writing its output key.
C9_BadPlanFailsBeforeAnyRun ==
    (selPc \notin {"idle", "start"} /\ PlanMustFail) =>
        /\ selPc = "failed"
        /\ selError # ""
        /\ agent_runs = <<>> /\ tasks = <<>> /\ pending_tasks = {}
        /\ produced = <<>> /\ yielded = <<>>
        /\ session_state[OutputKey] = Unset
        /\ outWrites = 0

\* A failed run whose plan is a well-formed list naming only an agent outside
\* the pool.
C9_Witness ==
    /\ selPc = "failed"
    /\ IsTaskPlan
    /\ Len(Plan.items) = 2
    /\ \A k \in 1..2 : Plan.items[k].agent = "AgentX"

ContentOf(events) == SelectSeq(events, LAMBDA e : e.content)

\* C10: the output key is written once, when the run completes and every
\* produced event has been yielded; its value has an entry exactly for the
\* agents that produced content, holding exactly the content-bearing events
\* of that agent's runs, those of each run in the order they were produced.
C10_OutputsWrittenOnceAtEnd ==
    /\ (selPc # "done" => outWrites = 0 /\ session_state[OutputKey] = Unset)
    /\ (selPc = "done" =>
          LET out == session_state[OutputKey].value
          IN  /\ outWrites = 1
              /\ session_state[OutputKey].set
              /\ \A i \in DOMAIN produced : YieldedBy(i) = produced[i]
              /\ DOMAIN out = {agent_runs[i].agent :
                                 i \in {j \in DOMAIN produced : ContentOf(produced[j]) # <<>>}}
              /\ \A a \in DOMAIN out :
                    /\ \A k \in 1..Len(out[a]) :
                          /\ out[a][k].run \in DOMAIN agent_runs
                          /\ agent_runs[out[a][k].run].agent = a
                    /\ \A i \in DOMAIN agent_runs :
                          agent_runs[i].agent = a =>
                              SelectSeq(out[a], LAMBDA e : e.run = i) = ContentOf(produced[i]))

\* A completed run in which Agent1 produced two content-bearing events and
\* Agent2 only an event without content.
C10_Witness ==
    /\ selPc = "done"
    /\ Len(agent_runs) = 2
    /\ Len(produced[1]) = 2 /\ Len(produced[2]) = 1
    /\ DOMAIN session_state[OutputKey].value = {"Agent1"}
    /\ Len(session_state[OutputKey].value["Agent1"]) = 2

\* ---- the VLM fan-out ----
RECURSIVE Concat(_)
Concat(seqs) == IF seqs = <<>> THEN <<>> ELSE Head(seqs) \o Concat(Tail(seqs))

Distributed == vlmPc \in {"running", "done"}

\* C3: for N images and M > 0 agents there are exactly M batches, batch i
\* (0-based) holds floor(N/M)+1 images when i < N mod M and floor(N/M)
\* otherwise, and the batches concatenated in order are the image list.
C3_BalancedContiguousBatches ==
    Distributed =>
        LET N == Len(vlm_images)
            M == Len(vlm_agents)
        IN  /\ M > 0
            /\ Len(image_batches) = M
            /\ \A b \in 1..M :
                  Len(image_batches[b]) =
                      IF b - 1 < N % M THEN (N \div M) + 1 ELSE N \div M
            /\ Concat(image_batches) = vlm_images

\* Three images distributed over two agents: batches of two and of one.
C3_Witness ==
    /\ Distributed
    /\ Len(vlm_images) = 3
    /\ Len(vlm_agents) = 2
    /\ Len(image_batches[1]) = 2
    /\ Len(image_batches[2]) = 1

\* The batch (0-based) and the index in it (0-based) that the balanced
\* distribution of N images over M agents gives image k (1-based).
Assigned(k, N, M) ==
    LET base == N \div M
        rem == N % M
        big == rem * (base + 1)
    IN  IF k <= big
        THEN [batch |-> (k - 1) \div (base + 1), i |-> (k - 1) % (base + 1)]
        ELSE [batch |-> rem + ((k - big - 1) \div base), i |-> (k - big - 1) % base]

\* C8: run_all_vlm_batches returns one record per image, in the order of the
\* images, each naming the agent the balanced distribution gave the image
\* to; the record of an image whose request failed carries the error text,
\* and every other image has the response of its own request.
C8_OneRecordPerImageInOrder ==
    (vlmCaller = "vlm_runner" /\ vlmPc = "done") =>
        LET N == Len(vlm_images)
            M == Len(vlm_agents)
        IN  /\ Len(all_results) = N
            /\ \A k \in 1..N :
                  LET a == Assigned(k, N, M)
                      rec == all_results[k]
                  IN  /\ rec.vlm_agent = vlm_agents[a.batch + 1]
                      /\ rec.image_id =
                            ImageGet(vlm_images[k], <<"batch", a.batch + 1, "img", a.i>>)
                      /\ (vlm_images[k].path \in vlm_raised
                            <=> rec.response.prefix = ErrorPrefix)
                      /\ (vlm_images[k].path \notin vlm_raised
                            => rec.response.text \in {"answer", ""})

\* Three images and two agents: the first request of the first agent failed,
\* and both the second image of that agent and the image of the other agent
\* were answered.
C8_Witness ==
    /\ vlmCaller = "vlm_runner"
    /\ vlmPc = "done"
    /\ Len(vlm_images) = 3
    /\ Len(vlm_agents) = 2
    /\ vlm_raised = {vlm_images[1].path}
    /\ all_results[1].response.prefix = ErrorPrefix
    /\ all_results[2].response.text = "answer"
    /\ all_results[3].response.text = "answer"

\* C7: no response loop takes more events from an agent's stream than the
\* cap of its kind of agent; for a VLM request that is max_vlm_events.
C7_ResponseLoopsAreCapped ==
    vlmConsumed <= max_vlm_events

\* ---- CosmoFlowAgent ----
WorkflowEvents == SelectSeq(flowYielded, LAMBDA e : e.author = FlowName)

\* C6: an exception raised in the step sequence is caught by the run: once
\* it is raised no further agent is started and the fan-out does not run;
\* when the run has ended, the one event authored by the workflow is the
\* apology carrying the exception's message, it is the last event of the
\* run, and no final answer was yielded.
C6_ExceptionBecomesOneApology ==
    flowExc.raised =>
        /\ flowPc \in {"except", "done"}
        /\ Len(flowLog) = flowExc.at
        /\ vlmPc \in {"idle", "done"}
        /\ flowPc = "except" => WorkflowEvents = <<>>
        /\ flowPc = "done" =>
              /\ WorkflowEvents =
                    <<[author |-> FlowName, text |-> Text(ApologyPrefix, flowExc.msg)]>>
              /\ flowYielded[Len(flowYielded)].author = FlowName
              /\ flowExc.msg # ""

\* A run of cosmo_backup_fix whose Aggregator failed after the VLM results
\* had been yielded, ended by the apology.
C6_Witness ==
    /\ variant = "cosmo_backup_fix"
    /\ flowPc = "done"
    /\ flowExc.raised
    /\ flowExc.msg = "aggregator failed"
    /\ Len(vlm_results) >= 1
    /\ Len(flowYielded) >= 2
    /\ flowYielded[Len(flowYielded)].text.prefix = ApologyPrefix

\* C5: when the search stage has pooled no image, no VLM agent and no
\* Aggregator is invoked in the run, and the run's final answer is the fixed
\* "no relevant images found" sentence.
C5_NoImagesShortCircuit ==
    (all_images.set /\ all_images.value = <<>>) =>
        /\ vlmPc = "idle"
        /\ "AggregatorAgent" \notin Range(flowLog)
        /\ flowPc = "done" => WorkflowEvents = <<FinalEvent(FlowName, NoImagesAnswer)>>

\* ---- root_agent ----
\* C11: the stages start in the workflow's order, each after the one before
\* it has ended: no specialist run exists while the Coordinator is running;
\* once the Aggregator is started the orchestrator has ended, every
\* specialist run is exhausted and fully yielded and sub_agent_outputs is
\* written; and after a failure of the orchestrator the Aggregator is not
\* started.
C11_StagesRunOneAfterAnother ==
    /\ seqLog = SubSeq(SeqStages, 1, Len(seqLog))
    /\ seqPc = "coordinator" => (selPc = "idle" /\ agent_runs = <<>> /\ Len(seqLog) = 1)
    /\ "Aggregator" \in Range(seqLog) =>
          /\ selPc = "done"
          /\ \A i \in DOMAIN tasks : tasks[i].st = "gone"
          /\ \A i \in DOMAIN produced : YieldedBy(i) = produced[i]
          /\ session_state[OutputKey].set
          /\ outWrites = 1
    /\ selPc = "failed" => "Aggregator" \notin Range(seqLog)
    /\ seqPc = "failed" => "Aggregator" \notin Range(seqLog)

\* The Aggregator running after two specialists each produced an event that
\* the workflow yielded, the Coordinator having produced one before them.
C11_Witness ==
    /\ seqPc = "aggregator"
    /\ seqLog = SeqStages
    /\ Len(agent_runs) = 2
    /\ Len(yielded) = 2
    /\ session_state[OutputKey].set

\* The orchestrator has failed on a plan naming no pool agent, and the
\* workflow with it.
C11_WitnessFailure ==
    /\ seqPc = "failed"
    /\ selPc = "failed"
    /\ seqLog = SubSeq(SeqStages, 1, 2)

\* ---- concurrent draws ----
RECURSIVE SumCounts(_, _)
SumCounts(counts, keys) ==
    IF keys = {} THEN 0
    ELSE LET k == CHOOSE x \in keys : TRUE
         IN  counts[k] + SumCounts(counts, keys \ {k})

\* A thread is reading the cursor or is between loading and storing a usage
\* counter only while it holds the lock.
DrawsHoldTheLock ==
    \A t \in DOMAIN threads :
        threads[t].pc \in {"load", "store", "advance"} => lock = t

\* Whenever no draw is in progress the usage counters sum to the number of
\* completed draws.
CountsSumToDraws ==
    (\A t \in DOMAIN threads : threads[t].pc = "idle") =>
        SumCounts(usage_count, DOMAIN usage_count) = draws_completed

\* C12: every draw, get_next_key and get_key_for_agent alike, touches the
\* cursor and the usage counters only while holding the lock, so that after
\* any interleaving of concurrent draws the usage counters sum to the number
\* of completed draws.
C12_DrawsAreSerialised == DrawsHoldTheLock /\ CountsSumToDraws

\* ---- the active credential ----
\* C13: when an agent's own pre-invocation callback returns, the active
\* credential is that agent's key; at its model call, an await later, it may
\* be the key of another agent running at the same time (C13_Witness).
C13_OwnKeyOnlyAtCallbackReturn ==
    credLast.op = "callback" => environ = factory_agents[credLast.agent].assigned_key

\* Two agents with different keys run at the same time, and one has made its
\* model call while the active credential held the other's key.
C13_Witness ==
    \E a, b \in DOMAIN factory_agents :
        /\ a # b
        /\ factory_agents[a].assigned_key # factory_agents[b].assigned_key
        /\ factory_agents[a].pc = "model_call"
        /\ factory_agents[b].pc # "idle"
        /\ factory_agents[a].seen = factory_agents[b].assigned_key

\* C14: every invocation draws a key for the agent in its pre-invocation
\* callback: when the callback returns the usage counter of the agent's key
\* has grown by one and that key is the active credential.
C14_EveryInvocationDraws ==
    credLast.op = "callback" =>
        LET key == factory_agents[credLast.agent].assigned_key
        IN  /\ usage_count[key] = credLast.before[key] + 1
            /\ environ = key

\* C18: once the module has built its agents, no search agent shares a key
\* with a vision agent, and the Aggregator's key is the key of no other agent.
C18_RolesDoNotCollide ==
    Len(factory_agents) = Len(AgentSpecs) =>
        /\ \A a, b \in DOMAIN factory_agents :
              (factory_agents[a].role = "search" /\ factory_agents[b].role = "vlm") =>
                  factory_agents[a].assigned_key # factory_agents[b].assigned_key
        /\ \A a, b \in DOMAIN factory_agents :
              (factory_agents[a].role = "aggregator" /\ a # b) =>
                  factory_agents[a].assigned_key # factory_agents[b].assigned_key

\* ---- the key manager: empty pool, round robin, reset ----
\* C15: with an empty pool every draw, round-robin or by identity, fails with
\* the "no keys available" configuration error and leaves the cursor and the
\* usage counters as they were.
C15_EmptyPoolIsAConfigError ==
    /\ (api_keys = <<>> /\ kmLast.op # "none") =>
          kmLast.op \in {"next_error", "agent_error", "reset"}
    /\ kmLast.op \in {"next_error", "agent_error"} =>
          /\ kmLast.error = NoKeysError
          /\ current_index = kmLast.before.current_index
          /\ usage_count = kmLast.before.usage_count

\* C16: get_next_key returns the key at the cursor and moves the cursor one
\* slot on, modulo the pool size K; the cursor stays within 0..K-1; any K
\* consecutive get_next_key calls return the K slots once each, in pool order
\* from the slot the first of them started at; every other operation leaves
\* the cursor where it was.
C16_RoundRobinCursor ==
    LET K == Len(api_keys)
        b == kmLast.before
    IN  /\ K >= 1 => current_index \in 0..(K - 1)
        /\ kmLast.op = "next" =>
              /\ kmLast.key = b.api_keys[b.current_index + 1]
              /\ current_index = (b.current_index + 1) % K
              /\ api_keys = b.api_keys
        /\ kmLast.op \in {"agent", "reset", "next_error", "agent_error"} =>
              current_index = b.current_index
        /\ \A j \in 1..Len(next_keys) :
              j + K - 1 <= Len(next_keys) =>
                  \E start \in 0..(K - 1) :
                      \A i \in 0..(K - 1) :
                          next_keys[j + i] = api_keys[((start + i) % K) + 1]

\* A pool of two distinct keys after get_next_key, a draw by identity, and a
\* second get_next_key that wrapped the cursor back to slot 0.
C16_Witness ==
    /\ kmLast.op = "next"
    /\ Len(api_keys) = 2
    /\ api_keys[1] # api_keys[2]
    /\ next_keys = api_keys
    /\ kmLast.before.current_index = 1
    /\ current_index = 0
    /\ kmCalls = 3

\* C17: reset_usage_stats sets every counter to zero and leaves the pool and
\* the cursor as they were, so that get_key_for_agent(i) returns after the
\* reset the key it returned before it, for every identity i.
C17_ResetKeepsPoolAndCursor ==
    kmLast.op = "reset" =>
        LET b == kmLast.before
        IN  /\ \A k \in DOMAIN usage_count : usage_count[k] = 0
            /\ DOMAIN usage_count = Range(api_keys)
            /\ api_keys = b.api_keys
            /\ current_index = b.current_index
            /\ \A i \in AgentIds :
                  /\ api_keys # <<>> =>
                        api_keys[KeyIndex(i, api_keys) + 1]
                            = b.api_keys[KeyIndex(i, b.api_keys) + 1]
                  /\ kmAssigned[i] # NoKey =>
                        api_keys[KeyIndex(i, api_keys) + 1] = kmAssigned[i]

\* A reset of a pool of two distinct keys whose counters were both above zero,
\* with the cursor off slot 0 and an identity that has drawn its key.
C17_Witness ==
    /\ kmLast.op = "reset"
    /\ Cardinality(Range(api_keys)) >= 2
    /\ \A k \in DOMAIN kmLast.before.usage_count : kmLast.before.usage_count[k] >= 1
    /\ current_index > 0
    /\ \E i \in AgentIds : kmAssigned[i] # NoKey

\* ---- the merge: progress ----
\* C19: an event a producer has ready is yielded whatever the other producer
\* does: as long as A goes on producing, every event of A is eventually
\* yielded, also when B never produces anything.
C19_ReadyEventsAreYielded ==
    \A i \in 1..2 : \A n \in 1..MaxLiveEvents :
        (i \in DOMAIN produced /\ Len(produced[i]) >= n) ~> (Len(YieldedBy(i)) >= n)

\* Every event of A has been yielded while B's first task is still running,
\* B having produced nothing.
C19_Witness ==
    /\ Len(agent_runs) = 2
    /\ Len(YieldedBy(1)) = eventLimit
    /\ eventLimit >= 2
    /\ produced[2] = <<>>
    /\ tasks[2].st = "running"

\* ---- cosmo_backup_fix without task_results ----
\* C20: in cosmo_backup_fix, when the Coordinator has finished and session
\* state holds no task_results, or an empty one, the run is over: the workflow
\* has authored no event, no exception was raised, and no search agent, VLM
\* agent or Aggregator was started.
C20_NoTaskResultsEndsSilently ==
    (/\ variant = "cosmo_backup_fix"
     /\ flowPc # "start"
     /\ ~(flowExc.raised /\ flowExc.msg = "main agent failed")
     /\ task_results.type \in {"missing", "empty"}) =>
        /\ flowPc = "done"
        /\ WorkflowEvents = <<>>
        /\ ~flowExc.raised
        /\ flowLog = <<"MainCoordinator">>
        /\ search_runs = <<>>
        /\ vlmPc = "idle"
        /\ \A k \in 1..Len(flowYielded) : flowYielded[k].author = "MainCoordinator"

\* The run has ended after two Coordinator events, task_results being present
\* and empty.
C20_Witness ==
    /\ variant = "cosmo_backup_fix"
    /\ flowPc = "done"
    /\ task_results.type = "empty"
    /\ ~flowExc.raised
    /\ Len(flowYielded) = 2

\* ---- cosmo_workflow: the search stage ----
\* C21: once the search stage of cosmo_workflow has started, the search
\* agents run are exactly the agents the plan names, each with the query of
\* the entry naming it, and every entry of the plan is run.
C21_SearchRunsFollowThePlan ==
    (variant = "cosmo_workflow" /\ flowPc \notin {"start", "step2"}) =>
        /\ \A i \in DOMAIN search_runs :
              \E k \in DOMAIN search_tasks :
                  /\ search_tasks[k].agent = search_runs[i].agent
                  /\ search_tasks[k].query = search_runs[i].query
        /\ \A k \in DOMAIN search_tasks :
              \E i \in DOMAIN search_runs :
                  /\ search_tasks[k].agent = search_runs[i].agent
                  /\ search_tasks[k].query = search_runs[i].query

\* C29: no two concurrent search coroutines write the same session-state key,
\* and the query a search agent finds in session state when it runs is the
\* query of its own task.
C29_SearchQueriesDoNotInterfere ==
    /\ \A i, j \in DOMAIN search_runs :
          (i # j /\ search_runs[i].wrote # Absent) =>
              search_runs[i].wrote # search_runs[j].wrote
    /\ \A i \in DOMAIN search_runs :
          search_runs[i].done => search_runs[i].found = search_runs[i].query

\* ---- the VLM fan-out: agents without images ----
\* C22: a VLM agent whose batch is empty gets no coroutine: for N images and
\* M agents the coroutines are those of the first min(N, M) agents of the
\* pool, in pool order, and every request made is made by one of them.
C22_EmptyBatchAgentsAreSkipped ==
    Distributed =>
        LET N == Len(vlm_images)
            M == Len(vlm_agents)
            k == Min(N, M)
        IN  /\ vlm_tasks = [t \in 1..k |-> t - 1]
            /\ \A t \in DOMAIN vlm_tasks : image_batches[vlm_tasks[t] + 1] # <<>>
            /\ \A t \in DOMAIN batch_results :
                  \A j \in DOMAIN batch_results[t] :
                      /\ t <= k
                      /\ batch_results[t][j].vlm_agent = vlm_agents[t]

\* One image and two agents: the fan-out has ended with one coroutine, that
\* of the first agent, which made one request.
C22_Witness ==
    /\ vlmPc = "done"
    /\ Len(vlm_images) = 1
    /\ Len(vlm_agents) = 2
    /\ vlm_tasks = <<0>>
    /\ Len(all_results) = 1

\* ---- the fallback aggregation ----
\* A response that is neither empty nor the sentinel.
NonSentinel(result) ==
    result.response \notin {Plain(""), Plain(SentinelResponse)}

\* The answer is the numbered list of the first min(3, k) of the k
\* non-sentinel responses, in their order, each with its image id.
IsNumberedList(results, result) ==
    LET good == SelectSeq(results, NonSentinel)
        top == IF Len(good) < 3 THEN Len(good) ELSE 3
    IN  /\ result.prefix = FallbackHeader
        /\ result.count = Len(good)
        /\ Len(result.lines) = top
        /\ \A i \in 1..top :
              result.lines[i] = [n |-> i, response |-> good[i].response,
                                 image_id |-> good[i].image_id]

C24_EmptyActionsSkipRetry ==
    (rt_pc \in {"step4", "step5", "done"} /\ rt_first_actions = <<>>) =>
        /\ RtPhase("retry") = <<>>
        /\ Len(rt_invoked) = Len(rt_tasks)
        /\ rt_coord = 2
        /\ rt_pc \in {"step5", "done"} =>
              /\ "step4_duration" \in DOMAIN rt_timing
              /\ rt_timing["step4_duration"] = 0
              /\ PrintsStep4Skipped

\* The workflow finished after an evaluation with no actions, with time
\* having passed in the earlier steps.
C24_Witness ==
    /\ rt_pc = "done"
    /\ rt_first_actions = <<>>
    /\ rt_eval.ok
    /\ rt_timing["step4_duration"] = 0
    /\ rt_timing["total_time"] > 0

\* The number of records in a sequence of lists.
RECURSIVE SumLen(_)
SumLen(lists) == IF lists = <<>> THEN 0 ELSE Len(Head(lists)) + SumLen(Tail(lists))

\* The requests whose writes a request can see: those made through the same
\* session service under the same app (app-level state), and the same user
\* (user-level state) or the same session (session state).
VisibleTo(r) ==
    {q \in vlm_requests :
        /\ q.service = r.service
        /\ q.app_name = r.app_name}

\* C25: every (VLM agent, image) request runs in a session service and a
\* session created for that request alone: no session receives more than one
\* request, and nothing written while one image is analysed is visible to the
\* request of another image, also when the two session ids are equal.
C25_RequestsAreIsolated ==
    /\ \A r \in vlm_requests : VisibleTo(r) = {r}
    /\ vlmPc \in {"running", "done"} =>
          Cardinality(vlm_requests) = SumLen(batch_results)

\* One agent analysed two images that carry no id, so both requests used the
\* session id built from "unknown".
C25_Witness ==
    /\ vlmPc = "done"
    /\ \E r, q \in vlm_requests :
          /\ r.image # q.image
          /\ r.session_id = q.session_id

\* C26: run_cosmo_workflow never raises to its caller: a failure while
\* creating the session or the runner, a missing session, and an exception
\* while streaming the events each end in a returned result that carries an
\* error field.
C26_DriverNeverRaises ==
    /\ drv_pc # "raised"
    /\ (drv_pc = "returned" /\ "error" \notin DOMAIN drv_result) =>
          /\ drv_session
          /\ drv_state.workflow_status # "initialized"
          /\ drv_exc = "none"

\* The request carries a text part as its first part.
FirstPartHasText(ctx) ==
    /\ ctx.request.kind = "content"
    /\ ctx.request.parts # <<>>
    /\ ctx.request.parts[1].text # NoneText

\* C27: extract_user_input returns the text of the first part of the request
\* when that part carries text; in every other case (no request, no content,
\* no parts, a first part without text) it returns user_query of the session
\* state, or the empty string when the state has none.
C27_ExtractUserInput ==
    in_pc = "returned" =>
        in_result = IF FirstPartHasText(in_ctx) THEN in_ctx.request.parts[1].text
                    ELSE IF in_ctx.user_query = Absent THEN "" ELSE in_ctx.user_query

\* The Aggregator of this run yielded an answer.
AggregatorAnswered ==
    \E k \in DOMAIN flowYielded :
        /\ flowYielded[k].author = "AggregatorAgent"
        /\ flowYielded[k].text = Plain("text")

\* C28: in cosmo_backup_fix, when at least one image was found and the
\* Aggregator produced an answer, the text of the final event is the
\* Aggregator's answer of this turn: not the default placeholder and not the
\* final answer an earlier turn left in session state.
C28_FinalEventIsAggregatorAnswer ==
    (/\ variant = "cosmo_backup_fix"
     /\ flowPc = "done"
     /\ ~flowExc.raised
     /\ all_images.set
     /\ all_images.value # <<>>
     /\ AggregatorAnswered) =>
        /\ flowYielded[Len(flowYielded)].author = FlowName
        /\ flowYielded[Len(flowYielded)].text = Plain("text")
        /\ flowYielded[Len(flowYielded)].text \notin {DefaultAnswer, StaleAnswer}

\* C30: in cosmo_backup_fix with the Coordinator of src/agent/agent.py, on a
\* session without task_results, a Coordinator run that ends normally and
\* outputs a valid non-empty plan is followed by the search stage: the run
\* does not end silently there.
C30_ValidPlanStartsSearch ==
    [][(/\ variant = "cosmo_backup_fix"
        /\ flowPc = "start"
        /\ task_results = MissingPlan
        /\ flowPc' # "start"
        /\ ~flowExc'.raised
        /\ plan_output'.list
        /\ plan_output'.items # <<>>) =>
            /\ flowPc' = "step2"
            /\ search_tasks' = plan_output'.items]_vars

\* ---- the fan-out when a sub-agent's stream raises ----
\* The stream of some run has failed.
SomeStreamFailed == \E i \in DOMAIN tasks : tasks[i].st = "error"

\* C31 as stated: when one sub-agent's stream fails, the run still ends with
\* every event of the other sub-agents yielded and the collected outputs
\* written to the output key.
C31_FailureIsIsolated ==
    (SomeStreamFailed /\ selPc \in {"done", "failed"}) =>
        /\ \A j \in DOMAIN tasks : tasks[j].st # "error" => YieldedBy(j) = produced[j]
        /\ session_state[OutputKey].set

\* C31 as amended: when a sub-agent's stream fails, the exception leaves the
\* orchestrator when the merge handles the failed task: the run never
\* completes, nothing is yielded after that point and the output key is
\* never written.
C31_FailurePropagates ==
    /\ SomeStreamFailed =>
          /\ selPc # "done"
          /\ outWrites = 0
          /\ session_state[OutputKey] = Unset
    /\ (selPc = "failed" /\ agent_runs # <<>>) =>
          /\ SomeStreamFailed
          /\ selError = "sub-agent failed"
          /\ \A j \in DOMAIN tasks :
                YieldedBy(j) = SubSeq(produced[j], 1, Len(YieldedBy(j)))

\* The run failed on the stream of Agent2 while an event that Agent1 had
\* produced was never yielded.
C31_Witness ==
    /\ selPc = "failed"
    /\ Len(agent_runs) = 2
    /\ tasks[2].st = "error"
    /\ Len(produced[1]) = 2
    /\ Len(YieldedBy(1)) = 1

\* C32: a run of cosmo_workflow whose agents' streams never end terminates
\* and yields exactly one final event: every response loop gives up at its
\* cap at the latest, also when no event carries a text or a search result.
C32_CappedRunTerminates ==
    <>(flowPc = "done" /\ Len(WorkflowEvents) = 1)

\* Every stream was without text and without results: step 1 fell back to the
\* default tasks at its cap, the search stage pooled no image, the Aggregator's
\* loop stopped at its cap, and the final event carries the empty answer.
C32_Witness ==
    /\ streamKind = "silent"
    /\ flowPc = "done"
    /\ search_tasks = DefaultTasks
    /\ \A i \in DOMAIN search_runs : search_runs[i].images = 0
    /\ all_images = Written(<<>>)
    /\ vlm_results = <<>>
    /\ flowConsumed = max_aggregator_events
    /\ answer = Written(Plain(""))
    /\ Len(WorkflowEvents) = 1

\* ---- SelectiveSubAgentRunner: branch labels ----
\* The producers whose run has started and not ended.
ActiveRuns == {i \in DOMAIN tasks : tasks[i].st \in {"running", "event"}}

\* C33: any two sub-agent runs that are active at the same time in one
\* fan-out carry different branch labels, also when the plan names the same
\* agent more than once.
C33_ActiveBranchesDiffer ==
    \A i, j \in ActiveRuns : i # j => agent_runs[i].branch # agent_runs[j].branch

\* ---- SelectiveSubAgentRunner: malformed plan entries ----
\* The plan is a list with an entry for the pool and an entry that lacks
\* the agent or the query field.
MixedPlan ==
    /\ Plan.list
    /\ ~NoEntryForThePool
    /\ \E k \in 1..Len(Plan.items) : ~HasBoth(Plan.items[k])

\* C34: on such a plan the orchestrator does not fail: it starts one run for
\* each well-formed entry naming a pool agent and none for the malformed one.
C34_MalformedEntryIgnored ==
    (selPc \notin {"idle", "start"} /\ MixedPlan) =>
        /\ selPc # "failed"
        /\ Len(agent_runs) =
              Len(SelectSeq(Plan.items,
                            LAMBDA e : HasBoth(e) /\ e.agent \in Range(sub_agents)))

Contribution(i) ==
    IF search_runs[i].response.seen
    THEN [j \in 1..search_runs[i].response.n |-> <<i, j>>]
    ELSE <<>>

RECURSIVE InAgentOrder(_)
InAgentOrder(i) ==
    IF i > Len(search_runs) THEN <<>> ELSE Contribution(i) \o InAgentOrder(i + 1)

\* C36: in the search stage of cosmo_workflow a search agent whose stream
\* raises contributes no image and every other agent still runs to its end;
\* the pooled list is the concatenation, in agent order, of the images of the
\* first response with images each agent received.
C36_PoolIsConcatenationInAgentOrder ==
    (variant = "cosmo_workflow" /\ all_images.set) =>
        /\ \A i \in DOMAIN search_runs : search_runs[i].done
        /\ \A i \in DOMAIN search_runs :
              search_runs[i].failed => (~search_runs[i].response.seen /\ search_runs[i].images = 0)
        /\ [k \in 1..Len(all_images.value) |-> all_images.value[k].origin] = InAgentOrder(1)

\* The first agent's stream raised, the second and third each received a
\* response with one image, and the pool holds those two images in that order.
C36_Witness ==
    /\ variant = "cosmo_workflow"
    /\ all_images.set
    /\ Len(search_runs) = 3
    /\ search_runs[1].failed
    /\ Len(all_images.value) = 2
    /\ all_images.value[1].origin = <<2, 1>>
    /\ all_images.value[2].origin = <<3, 1>>

\* ---- _fallback_aggregation: error records ----
\* C37: no line of the numbered list the fallback aggregator returns presents
\* the error text recorded for an image whose VLM request failed.
C37_NoErrorRecordAmongAnswers ==
    (fb_pc = "returned" /\ "lines" \in DOMAIN fb_answer) =>
        \A i \in DOMAIN fb_answer.lines : fb_answer.lines[i].response.prefix # ErrorPrefix

\* ---- _merge_agent_run: one request per producer ----
\* C38: throughout the merge each producer has at most one outstanding request
\* for its next event: at most one of its events is produced and not yet
\* yielded, and its task is running (the request is open) only when every event
\* it produced so far has been yielded to the caller.
C38_OneRequestAfterYield ==
    \A i \in DOMAIN tasks :
        /\ Len(produced[i]) <= Len(YieldedBy(i)) + 1
        /\ (tasks[i].st = "running" => YieldedBy(i) = produced[i])
        /\ (tasks[i].st = "event" =>
              /\ Len(produced[i]) = Len(YieldedBy(i)) + 1
              /\ tasks[i].ev = produced[i][Len(produced[i])])

\* The first producer has been asked for its second event after its first
\* was yielded, while the second producer's first event waits to be yielded.
C38_Witness ==
    /\ selPc \in {"wait", "loop"}
    /\ Len(tasks) = 2
    /\ tasks[1].st = "running" /\ Len(produced[1]) = 1 /\ YieldedBy(1) = produced[1]
    /\ tasks[2].st = "event" /\ YieldedBy(2) = <<>>

\* ---- sub_agent_call_counter ----
RECURSIVE SumCalls(_, _)
SumCalls(calls, names) ==
    IF names = {} THEN 0
    ELSE LET a == CHOOSE x \in names : TRUE
         IN  calls[a] + SumCalls(calls, names \ {a})

\* The number of entries of the current plan that name specialist a.
PlannedFor(a) == Len(SelectSeq(cntPlan.items, LAMBDA e : e.agent = a))

\* C39: total_calls is always the sum of the per-agent counts; and when a
\* selective-routing run that started from a zeroed counter has ended, each
\* specialist's count is the number of times the plan had it invoked, zero
\* for the specialists the plan does not name.
C39_CounterMatchesInvocations ==
    /\ sub_agent_call_counter.total_calls =
          SumCalls(sub_agent_call_counter.agent_calls, Range(sub_agents))
    /\ (cntPc = "finished" /\ cntFresh) =>
          \A a \in Range(sub_agents) :
              sub_agent_call_counter.agent_calls[a] = PlannedFor(a)

\* After a reset, a run whose plan names Agent1 twice has ended: Agent1 was
\* counted twice and no other specialist at all.
C39_Witness ==
    /\ cntPc = "finished"
    /\ cntFresh
    /\ cntRounds = 2
    /\ sub_agent_call_counter.total_calls = 2
    /\ sub_agent_call_counter.agent_calls["Agent1"] = 2
    /\ sub_agent_call_counter.agent_calls["Agent2"] = 0

\* ---- batch_process_queries ----
\* The turns were taken one after another in list order: turn i starts, turn
\* i ends, turn i + 1 starts, ...
TurnsInOrder ==
    \A k \in 1..Len(bat_log) :
        bat_log[k] = <<(IF k % 2 = 1 THEN "start" ELSE "end"), (k + 1) \div 2>>

\* Result i is the one the turn for query i returned.
ResultsMatchQueries ==
    /\ Len(bat_results) = Len(bat_queries)
    /\ \A i \in 1..Len(bat_results) :
          \/ "error" \in DOMAIN bat_results[i]
          \/ bat_results[i].query = bat_queries[i]

\* C40: the batch driver takes the queries strictly one after another in list
\* order, a turn starting only after the previous one has returned, and it
\* ends by returning exactly one result per query, result i for query i,
\* error results included.
C40_BatchReturnsOneResultPerQuery ==
    /\ TurnsInOrder
    /\ bat_pc \in {"returned", "raised"} =>
          /\ bat_pc = "returned"
          /\ ResultsMatchQueries
          /\ Len(bat_log) = 2 * Len(bat_queries)

\* What does hold: a batch that returns has taken its turns in order and
\* holds one result per query.
BatchReturnedInOrder ==
    /\ TurnsInOrder
    /\ bat_pc = "returned" => (ResultsMatchQueries /\ Len(bat_log) = 2 * Len(bat_queries))
====
